---- MODULE Spec2Model ----
(***************************************************************************)
(* Firefly compositor: the scene (windows, layers, damage), the render     *)
(* engine, the message handlers and the server loop with its input state   *)
(* machine, modelled from src/src/scene, src/src/render/compositor.rs and  *)
(* src/src/server.                                                         *)
(***************************************************************************)
EXTENDS Integers, Sequences, FiniteSets, TLC

VARIABLES
    inbox,           \* Server.port: the inbox and what has passed through it
    render_engine,   \* Server.render_engine : RenderEngine
    input,           \* Server.input : InputManager
    pc,              \* position of Server::run: "recv", "render" or "exited";
                     \* "panicked" once a call has panicked
    frame_count,     \* Server.frame_count
    client_ports,    \* Server.client_ports : Vec<ClientPort>
    focused_window,  \* Server.focused_window : Option<u32>
    mouse,           \* Server.mouse : MouseState
    drag,            \* Server.drag : DragState
    click,           \* Server.click : ClickState
    taskbar_port,    \* Server.taskbar_port : Option<Port>
    run_result,      \* what Server::run returned: None while it is looping
    sent,            \* the platform calls the last step made, in order
    canvas,          \* a Backbuffer of its own, drawn on through render/
    added,           \* history kept by SpecDamage: the rects passed to
                     \* DamageTracker::add since new, clear or damage_full
    held             \* history kept by SpecMouse: the windows sent a MOUSE_DOWN
                     \* and no MOUSE_UP since

vars == <<inbox, render_engine, input, pc, frame_count, client_ports, focused_window,
          mouse, drag, click, taskbar_port, run_result, sent, canvas, added, held>>

-----------------------------------------------------------------------------
(* Bounds of the model *)

\* At most this many windows are ever created (caps next_window_id).
MaxWindows == 1

\* At most this many windows are ever stacked in the layers.
MaxLayerWindows == 3

\* At most this many windows are ever created through the engine's API alone.
MaxSceneWindows == 2

\* At most this many windows are ever created while presses are followed.
MaxClickWindows == 2


\* At most this many messages wait in the inbox.
MaxInbox == 2

\* At most this many messages are ever sent to the inbox.
MaxArrivals == 3


\* Number of one-pixel cells, two pixels apart, that the callers of the damage
\* tracker add in SpecDamage: more than max_regions, so that add collapses.
MaxDamageCells == 18

\* Width in pixels of the buffers drawn on through render/.
CanvasWidth == 3

\* At most this many frames are rendered (caps frame_count).
MaxFrames == 1

-----------------------------------------------------------------------------
(* Option<T> *)

None == <<>>

Some(v) == <<v>>

Unwrap(o) == o[1]

-----------------------------------------------------------------------------
(* Fixed-width integers *)

U16(n) == n % 65536

\* The u32 (hi << 16) | lo, kept as its two 16-bit halves.
HalfWords(hi, lo) == [hi |-> hi, lo |-> lo]

\* An unsigned integer as its bytes, lowest first: the u32 n below 2^31 ...
Word(n) == <<n % 256, (n \div 256) % 256, (n \div 65536) % 256, n \div 16777216>>

\* ... and back, for a u32 below 2^31.
WordValue(w) == w[1] + 256 * w[2] + 65536 * w[3] + 16777216 * w[4]

\* Column k (from 0) of the long multiplication of a and b.
RECURSIVE MulColumn(_, _, _, _)
MulColumn(a, b, k, i) ==
    IF i > Len(a) THEN 0
    ELSE (IF k + 2 - i >= 1 /\ k + 2 - i <= Len(b) THEN a[i] * b[k + 2 - i] ELSE 0)
             + MulColumn(a, b, k, i + 1)

\* The bytes of a * b from column k on, Len(a) + Len(b) bytes in all.
RECURSIVE MulBytes(_, _, _, _)
MulBytes(a, b, k, carry) ==
    IF k >= Len(a) + Len(b) THEN <<>>
    ELSE LET t == MulColumn(a, b, k, 1) + carry
         IN  <<t % 256>> \o MulBytes(a, b, k + 1, t \div 256)

\* a * b as mathematical integers
Product(a, b) == MulBytes(a, b, 0, 0)

\* The bytes w followed by zero bytes, n bytes in all.
Widened(w, n) == w \o [i \in 1..(n - Len(w)) |-> 0]

\* The u32 product a * b: its value modulo 2^32 and whether it overflowed.
Mul32(a, b) ==
    LET exact == Product(a, b)
    IN  [value |-> SubSeq(exact, 1, 4),
         overflow |-> \E i \in 5..Len(exact) : exact[i] # 0]

\* u32::overflowing_mul on u32s below 2^31 whose wrapped product is below 2^31,
\* taken directly when both are at most 46340 (the product is below 2^31) and
\* by bytes when not.
u32_overflowing_mul(a, b) ==
    IF a <= 46340 /\ b <= 46340
    THEN [value |-> a * b, overflow |-> FALSE]
    ELSE LET product == Mul32(Word(a), Word(b))
         IN  [value |-> WordValue(product.value), overflow |-> product.overflow]

-----------------------------------------------------------------------------
(* gfx_types::geometry (Point, Size, Rect), half-open [x, x+w) rectangles *)

Point(x, y) == [x |-> x, y |-> y]

PointZERO == Point(0, 0)

Size(w, h) == [width |-> w, height |-> h]

Rect(x, y, w, h) == [x |-> x, y |-> y, width |-> w, height |-> h]

RectZERO == Rect(0, 0, 0, 0)

Rect_from_size(s) == Rect(0, 0, s.width, s.height)

Right(r) == r.x + r.width

Bottom(r) == r.y + r.height

Min(a, b) == IF a < b THEN a ELSE b

Max(a, b) == IF a > b THEN a ELSE b

Rect_is_empty(r) == r.width = 0 \/ r.height = 0

Rect_intersects(a, b) ==
    /\ a.x < Right(b)
    /\ Right(a) > b.x
    /\ a.y < Bottom(b)
    /\ Bottom(a) > b.y

Rect_intersection(a, b) ==
    LET x == Max(a.x, b.x)
        y == Max(a.y, b.y)
        r == Min(Right(a), Right(b))
        bt == Min(Bottom(a), Bottom(b))
    IN  IF r > x /\ bt > y THEN Some(Rect(x, y, r - x, bt - y)) ELSE None

Rect_union(a, b) ==
    LET x == Min(a.x, b.x)
        y == Min(a.y, b.y)
        r == Max(Right(a), Right(b))
        bt == Max(Bottom(a), Bottom(b))
    IN  Rect(x, y, r - x, bt - y)

Rect_contains_point(r, p) ==
    /\ p.x >= r.x
    /\ p.x < Right(r)
    /\ p.y >= r.y
    /\ p.y < Bottom(r)

-----------------------------------------------------------------------------
(* gfx_types::window (LayerType, WindowFlags, WindowState) *)

LayerTypes == {"Background", "Normal", "Top", "Panel", "Overlay", "Lock", "Cursor"}

WindowFlags_has(flags, bit) == bit \in flags

-----------------------------------------------------------------------------
(* render/mod.rs : Backbuffer.  A pixel is <<alpha, red, green, blue>>, a   *)
(* buffer is the sequence of its pixels, row after row: the word at index i *)
(* of the Vec<u32> is element i + 1.                                        *)

Argb(a, r, g, b) == <<a, r, g, b>>

\* 0xFF000000 and Color::WHITE
OpaqueBlack == Argb(255, 0, 0, 0)

ColorWHITE == Argb(255, 255, 255, 255)

\* The size of the buffers drawn on: two rows of CanvasWidth pixels.
CanvasSize == Size(CanvasWidth, 2)

Backbuffer_with_dimensions(width, height) ==
    [width |-> width, height |-> height,
     buffer |-> [i \in 1..(width * height) |-> OpaqueBlack]]

\* Faulty variant of Backbuffer_put_pixel: x is not compared with the width.
Backbuffer_put_pixel_unchecked_x(bb, x, y, color) ==
    IF x < 0 \/ y < 0 \/ y >= bb.height THEN bb
    ELSE LET offset == y * bb.width + x
         IN  IF offset < Len(bb.buffer)
             THEN [bb EXCEPT !.buffer[offset + 1] = color]
             ELSE bb

Backbuffer_put_pixel(bb, x, y, color) ==
    IF x < 0 \/ y < 0 \/ x >= bb.width \/ y >= bb.height THEN bb
    ELSE LET offset == y * bb.width + x
         IN  IF offset < Len(bb.buffer)
             THEN [bb EXCEPT !.buffer[offset + 1] = color]
             ELSE bb

Backbuffer_clear(bb, color) == [bb EXCEPT !.buffer = [i \in DOMAIN @ |-> color]]

-----------------------------------------------------------------------------
(* render/blitter.rs : Blitter.  A usize is written as an integer v: v >= 0  *)
(* is itself and v < 0 is 2^64 + v, what `as usize` makes of a negative i32. *)
(* A sum that passes 2^64 panics in a build with overflow checks and wraps   *)
(* in a build without; `checks` says which build runs.                       *)
(* dst and src have dst_size and src_size pixels, as every caller passes.    *)

\* a + n overflows, for n >= 0 below 2^63
UsizeAddOverflows(a, n) == a < 0 /\ a + n >= 0

\* a >= n, for n >= 0 below 2^63
UsizeGe(a, n) == a < 0 \/ a >= n

\* a.min(n), for n >= 0 below 2^63
UsizeMin(a, n) == IF a < 0 THEN n ELSE Min(a, n)

\* dst[start .. start + width] = src[from .. from + width]
CopySlice(dst, start, src, from, width) ==
    [i \in DOMAIN dst |->
        IF i - 1 >= start /\ i - 1 < start + width
        THEN src[from + (i - 1 - start) + 1]
        ELSE dst[i]]

\* blend_over(src, dst) on pixels
blend_over(s, d) ==
    IF s[1] = 255 THEN s
    ELSE IF s[1] = 0 THEN d
    ELSE Argb(255,
              (s[2] * s[1] + d[2] * (255 - s[1])) \div 255,
              (s[3] * s[1] + d[3] * (255 - s[1])) \div 255,
              (s[4] * s[1] + d[4] * (255 - s[1])) \div 255)

\* A call of blit_opaque or blit_alpha: its arguments but dst, and the build.
BlitCall(dst_size, src, src_size, src_rect, dst_point, checks) ==
    [dst_size |-> dst_size, src |-> src, src_size |-> src_size,
     src_rect |-> src_rect, dst_point |-> dst_point, checks |-> checks]

\* What a blit has done: the destination, and whether it panicked.
Blitted(dst, panicked) == [dst |-> dst, panicked |-> panicked]

\* blit_opaque, row y of the loop over clipped.height
OpaqueRow(dst, c, clipped, y) ==
    LET offset_x == clipped.x - c.dst_point.x
        offset_y == clipped.y - c.dst_point.y
        src_y == c.src_rect.y + offset_y + y
        dst_y == clipped.y + y
        src_start == src_y * c.src_size.width + c.src_rect.x + offset_x
        dst_start == dst_y * c.dst_size.width + clipped.x
        copy_width == clipped.width
        src_end == UsizeMin(src_start + copy_width, Len(c.src))
        dst_end == Min(dst_start + copy_width, Len(dst))
        actual_width == UsizeMin(src_end - src_start, dst_end - dst_start)
    IN  IF c.checks /\ UsizeAddOverflows(c.src_rect.y, offset_y + y)
        THEN Blitted(dst, TRUE)
        ELSE IF UsizeGe(src_y, c.src_size.height) THEN Blitted(dst, FALSE)
        ELSE IF c.checks
                  /\ \/ UsizeAddOverflows(c.src_rect.x,
                                          src_y * c.src_size.width + offset_x)
                     \/ UsizeAddOverflows(src_start, copy_width)
                     \/ src_start < 0
                     \/ src_start > src_end
        THEN Blitted(dst, TRUE)
        ELSE IF actual_width > 0 /\ dst_start < Len(dst)
                   /\ ~UsizeGe(src_start, Len(c.src))
        THEN Blitted(CopySlice(dst, dst_start, c.src, src_start, actual_width), FALSE)
        ELSE Blitted(dst, FALSE)

\* blit_opaque, the rows from y on
RECURSIVE OpaqueRows(_, _, _, _)
OpaqueRows(dst, c, clipped, y) ==
    IF y >= clipped.height THEN Blitted(dst, FALSE)
    ELSE LET row == OpaqueRow(dst, c, clipped, y)
         IN  IF row.panicked THEN row ELSE OpaqueRows(row.dst, c, clipped, y + 1)

Blitter_blit_opaque(dst, c) ==
    LET dst_rect == Rect(c.dst_point.x, c.dst_point.y, c.src_rect.width,
                         c.src_rect.height)
        clipped == Rect_intersection(dst_rect, Rect_from_size(c.dst_size))
    IN  IF clipped = None THEN Blitted(dst, FALSE)
        ELSE OpaqueRows(dst, c, Unwrap(clipped), 0)

\* blit_alpha, the body of the loops for row y and column x
AlphaPixel(dst, c, y, x) ==
    LET src_y == c.src_rect.y + y
        dst_y == c.dst_point.y + y
        src_x == c.src_rect.x + x
        dst_x == c.dst_point.x + x
        src_idx == src_y * c.src_size.width + src_x
        dst_idx == dst_y * c.dst_size.width + dst_x
        src_pixel == c.src[src_idx + 1]
    IN  IF c.checks /\ \/ UsizeAddOverflows(c.src_rect.y, y)
                       \/ UsizeAddOverflows(c.dst_point.y, y)
        THEN Blitted(dst, TRUE)
        ELSE IF UsizeGe(src_y, c.src_size.height) \/ UsizeGe(dst_y, c.dst_size.height)
        THEN Blitted(dst, FALSE)
        ELSE IF c.checks /\ \/ UsizeAddOverflows(c.src_rect.x, x)
                            \/ UsizeAddOverflows(c.dst_point.x, x)
        THEN Blitted(dst, TRUE)
        ELSE IF UsizeGe(src_x, c.src_size.width) \/ UsizeGe(dst_x, c.dst_size.width)
        THEN Blitted(dst, FALSE)
        ELSE IF src_idx >= Len(c.src) \/ dst_idx >= Len(dst) THEN Blitted(dst, FALSE)
        ELSE IF src_pixel[1] = 255
        THEN Blitted([dst EXCEPT ![dst_idx + 1] = src_pixel], FALSE)
        ELSE IF src_pixel[1] > 0
        THEN Blitted([dst EXCEPT ![dst_idx + 1] = blend_over(src_pixel, @)], FALSE)
        ELSE Blitted(dst, FALSE)

\* blit_alpha, the pixels of src_rect from the k-th on, row after row
\* (src_rect.width >= 1)
RECURSIVE AlphaPixels(_, _, _)
AlphaPixels(dst, c, k) ==
    IF k >= c.src_rect.width * c.src_rect.height THEN Blitted(dst, FALSE)
    ELSE LET pixel == AlphaPixel(dst, c, k \div c.src_rect.width,
                                 k % c.src_rect.width)
         IN  IF pixel.panicked THEN pixel ELSE AlphaPixels(pixel.dst, c, k + 1)

Blitter_blit_alpha(dst, c) == AlphaPixels(dst, c, 0)

\* fill_rect, row y of the loop over clipped.height
FillRow(dst, dst_size, clipped, y, color) ==
    LET start == (clipped.y + y) * dst_size.width + clipped.x
        end == Min(start + clipped.width, Len(dst))
    IN  IF start < Len(dst)
        THEN [i \in DOMAIN dst |-> IF i - 1 >= start /\ i - 1 < end THEN color ELSE dst[i]]
        ELSE dst

RECURSIVE FillRows(_, _, _, _, _)
FillRows(dst, dst_size, clipped, y, color) ==
    IF y >= clipped.height THEN dst
    ELSE FillRows(FillRow(dst, dst_size, clipped, y, color), dst_size, clipped,
                  y + 1, color)

Blitter_fill_rect(dst, dst_size, rect, color) ==
    LET clipped == Rect_intersection(rect, Rect_from_size(dst_size))
    IN  IF clipped = None THEN dst
        ELSE FillRows(dst, dst_size, Unwrap(clipped), 0, color)

Blitter_put_pixel(dst, dst_size, x, y, color) ==
    IF x < 0 \/ y < 0 \/ x >= dst_size.width \/ y >= dst_size.height THEN dst
    ELSE LET idx == y * dst_size.width + x
         IN  IF idx < Len(dst) THEN [dst EXCEPT ![idx + 1] = color] ELSE dst


\* draw_shadow: the shadow colour laid over every pixel of the shadow rect
\* (rect.offset(offset).expand(blur_radius)) that is in the destination.
Blitter_draw_shadow(dst, dst_size, rect, offset, blur_radius, color) ==
    LET shadow_rect == Rect(rect.x + offset.x - blur_radius,
                            rect.y + offset.y - blur_radius,
                            rect.width + 2 * blur_radius,
                            rect.height + 2 * blur_radius)
        clipped == Rect_intersection(shadow_rect, Rect_from_size(dst_size))
    IN  IF clipped = None THEN dst
        ELSE [i \in DOMAIN dst |->
                 IF Rect_contains_point(Unwrap(clipped),
                                        Point((i - 1) % dst_size.width,
                                              (i - 1) \div dst_size.width))
                 THEN blend_over(color, dst[i])
                 ELSE dst[i]]

\* The Left and Right rects of stroke_rect, of u32 height `height`.  A
\* negative `height` is 2^32 + height, what rect.height - t * 2 wraps to in a
\* build without overflow checks; gfx_types::Rect then puts the rect's bottom
\* edge either above its top edge (the height read back as an i32: `wide` is
\* FALSE) or below every screen (`wide` is TRUE).
StrokeSide(x, y, t, height, dst_size, wide) ==
    Rect(x, y, t,
         IF height >= 0 THEN height
         ELSE IF wide THEN Max(0, dst_size.height - y)
         ELSE height)

\* stroke_rect, the fills of the Top rect and of the Bottom rect at row bottom_y
StrokeTopBottom(dst, dst_size, rect, t, color, bottom_y) ==
    Blitter_fill_rect(
        Blitter_fill_rect(dst, dst_size, Rect(rect.x, rect.y, rect.width, t), color),
        dst_size, Rect(rect.x, bottom_y, rect.width, t), color)

Blitter_stroke_rect(dst, dst_size, rect, t, color, build) ==
    LET top_bottom == StrokeTopBottom(dst, dst_size, rect, t, color, Bottom(rect) - t)
        height == rect.height - t * 2
        left == Blitter_fill_rect(top_bottom, dst_size,
                    StrokeSide(rect.x, rect.y + t, t, height, dst_size, build.wide),
                    color)
    IN  IF build.checks /\ height < 0 THEN Blitted(top_bottom, TRUE)
        ELSE Blitted(Blitter_fill_rect(left, dst_size,
                         StrokeSide(Right(rect) - t, rect.y + t, t, height,
                                    dst_size, build.wide),
                         color),
                     FALSE)

-----------------------------------------------------------------------------
(* scene/damage.rs : DamageTracker *)

max_regions == 16

DamageTracker_new ==
    [regions |-> <<>>, full_damage |-> TRUE, screen_rect |-> RectZERO]

DamageTracker_set_size(d, width, height) ==
    [d EXCEPT !.screen_rect = Rect(0, 0, width, height)]

RECURSIVE BoundsOf(_, _, _)
BoundsOf(regions, i, acc) ==
    IF i > Len(regions) THEN acc
    ELSE BoundsOf(regions, i + 1, Rect_union(acc, regions[i]))

\* Faulty variant of bounding_box: the screen, whatever the regions.
DamageTracker_bounding_box_of_screen(d) == d.screen_rect

DamageTracker_bounding_box(d) ==
    IF d.full_damage THEN d.screen_rect
    ELSE IF d.regions = <<>> THEN RectZERO
    ELSE BoundsOf(d.regions, 2, d.regions[1])

DamageTracker_collapse(d) ==
    IF Len(d.regions) <= 1 THEN d
    ELSE [d EXCEPT !.regions = <<DamageTracker_bounding_box(d)>>]

\* Faulty variant of CollapseIfOver: the pushed region is kept as it is.
CollapseIfOver_never(pushed) == pushed

\* add, after the push of a region: collapse when there are too many.

CollapseIfOver(pushed) ==
    IF Len(pushed.regions) > max_regions THEN DamageTracker_collapse(pushed) ELSE pushed

\* add, for the rect clipped to the screen: the first region that intersects it
\* absorbs it, else it is pushed.
MergeOrPush(d, clipped) ==
    LET hits == {i \in 1..Len(d.regions) : Rect_intersects(d.regions[i], clipped)}
    IN  IF hits # {}
        THEN [d EXCEPT !.regions[CHOOSE j \in hits : \A k \in hits : j <= k] =
                           Rect_union(@, clipped)]
        ELSE CollapseIfOver([d EXCEPT !.regions = Append(@, clipped)])

\* add, for the result `clip` of rect.intersection(&self.screen_rect)
AddClipped(d, clip) == IF clip = None THEN d ELSE MergeOrPush(d, Unwrap(clip))

DamageTracker_add(d, rect) ==
    IF Rect_is_empty(rect) THEN d
    ELSE AddClipped(d, Rect_intersection(rect, d.screen_rect))

DamageTracker_damage_full(d, width, height) ==
    [d EXCEPT !.screen_rect = Rect(0, 0, width, height),
              !.full_damage = TRUE,
              !.regions = <<>>]

DamageTracker_clear(d) == [d EXCEPT !.regions = <<>>, !.full_damage = FALSE]

DamageTracker_has_damage(d) == d.full_damage \/ d.regions # <<>>

-----------------------------------------------------------------------------
(* scene/window.rs : Window *)

\* shm is the shared-memory region: its handle and its length in bytes.
Window_new(id, size, shm) ==
    [id |-> id,
     position |-> PointZERO,
     size |-> size,
     shm |-> shm,
     flags |-> {},
     state |-> "Normal",
     layer |-> "Normal",
     dirty |-> TRUE,
     has_content |-> FALSE,
     title |-> "",
     restore_rect |-> None,
     opacity |-> 255]

Window_rect(w) == Rect(w.position.x, w.position.y, w.size.width, w.size.height)

Window_is_visible(w) == w.state # "Minimized" /\ w.has_content

Window_has_decorations(w) == ~WindowFlags_has(w.flags, "BORDERLESS")

Window_is_transparent(w) == WindowFlags_has(w.flags, "TRANSPARENT") \/ w.opacity < 255

Window_has_shadow(w) == WindowFlags_has(w.flags, "HAS_SHADOW")

Window_set_layer(w, layer) == [w EXCEPT !.layer = layer, !.dirty = TRUE]

Window_set_has_content(w) == [w EXCEPT !.has_content = TRUE, !.dirty = TRUE]

Window_move_to(w, x, y) == [w EXCEPT !.position = Point(x, y), !.dirty = TRUE]

Window_minimize(w) ==
    IF w.state # "Minimized"
    THEN [w EXCEPT !.restore_rect = Some(Window_rect(w)),
                   !.state = "Minimized",
                   !.dirty = TRUE]
    ELSE w

Window_restore(w) ==
    LET back == IF w.restore_rect # None
                THEN LET r == Unwrap(w.restore_rect)
                     IN  [w EXCEPT !.position = Point(r.x, r.y),
                                   !.size = Size(r.width, r.height),
                                   !.restore_rect = None]
                ELSE w
    IN  [back EXCEPT !.state = "Normal", !.dirty = TRUE]

\* Faulty variant of Window_maximize: the rectangle to restore is not saved.
Window_maximize_forgetting_rect(w, screen_size) ==
    IF w.state # "Maximized"
    THEN [w EXCEPT !.position = PointZERO,
                   !.size = screen_size,
                   !.state = "Maximized",
                   !.dirty = TRUE]
    ELSE w


Window_maximize(w, screen_size) ==
    IF w.state # "Maximized"
    THEN [w EXCEPT !.restore_rect = Some(Window_rect(w)),
                   !.position = PointZERO,
                   !.size = screen_size,
                   !.state = "Maximized",
                   !.dirty = TRUE]
    ELSE w

Window_contains_point(w, x, y) == Rect_contains_point(Window_rect(w), Point(x, y))

Window_to_local(w, x, y) == Point(x - w.position.x, y - w.position.y)

-----------------------------------------------------------------------------
(* scene/layer.rs : Layer (a Vec<WindowId>, bottom to top) and LayerManager *)

SeqContains(s, id) == \E i \in 1..Len(s) : s[i] = id

SeqRetainNot(s, id) == SelectSeq(s, LAMBDA w : w # id)

SeqReverse(s) == [i \in 1..Len(s) |-> s[Len(s) + 1 - i]]

Layer_add_window(s, id) == IF ~SeqContains(s, id) THEN Append(s, id) ELSE s

Layer_remove_window(s, id) == SeqRetainNot(s, id)

\* Vec::remove(pos) of the first occurrence
SeqRemoveFirst(s, id) ==
    LET pos == CHOOSE i \in 1..Len(s) : s[i] = id /\ \A j \in 1..(i - 1) : s[j] # id
    IN  SubSeq(s, 1, pos - 1) \o SubSeq(s, pos + 1, Len(s))

\* Faulty variant of Layer_bring_to_front: id changes places with the last entry.
Layer_bring_to_front_by_swap(s, id) ==
    IF SeqContains(s, id)
    THEN LET pos == CHOOSE i \in 1..Len(s) : s[i] = id
         IN  [s EXCEPT ![pos] = s[Len(s)], ![Len(s)] = id]
    ELSE s

Layer_bring_to_front(s, id) ==
    IF SeqContains(s, id) THEN Append(SeqRemoveFirst(s, id), id) ELSE s

Layer_send_to_back(s, id) ==
    IF SeqContains(s, id) THEN <<id>> \o SeqRemoveFirst(s, id) ELSE s

LayerManager_new == [l \in LayerTypes |-> <<>>]

LayerManager_add_window_to_layer(layers, id, layer_type) ==
    [layers EXCEPT ![layer_type] = Layer_add_window(@, id)]

LayerManager_remove_window(layers, id) ==
    [l \in LayerTypes |-> Layer_remove_window(layers[l], id)]

\* Faulty variant of LayerManager_move_window: the id stays in the old layer.
LayerManager_move_window_keeping_old(layers, id, from, to) ==
    [layers EXCEPT ![to] = Layer_add_window(@, id)]

LayerManager_move_window(layers, id, from, to) ==
    LET removed == [layers EXCEPT ![from] = Layer_remove_window(@, id)]
    IN  [removed EXCEPT ![to] = Layer_add_window(@, id)]

LayerManager_iter_bottom_to_top(layers) ==
    layers["Background"] \o layers["Normal"] \o layers["Top"] \o layers["Panel"]
        \o layers["Overlay"] \o layers["Lock"] \o layers["Cursor"]

\* Faulty variant of LayerManager_iter_top_to_bottom: the layers are visited
\* from Background up.
LayerManager_iter_top_to_bottom_from_background(layers) ==
    SeqReverse(layers["Background"]) \o SeqReverse(layers["Normal"])
        \o SeqReverse(layers["Top"]) \o SeqReverse(layers["Panel"])
        \o SeqReverse(layers["Overlay"]) \o SeqReverse(layers["Lock"])
        \o SeqReverse(layers["Cursor"])

LayerManager_iter_top_to_bottom(layers) ==
    SeqReverse(layers["Cursor"]) \o SeqReverse(layers["Lock"])
        \o SeqReverse(layers["Overlay"]) \o SeqReverse(layers["Panel"])
        \o SeqReverse(layers["Top"]) \o SeqReverse(layers["Normal"])
        \o SeqReverse(layers["Background"])

-----------------------------------------------------------------------------
(* render/compositor.rs : RenderEngine.  The backbuffer is rewritten whole  *)
(* by every render and is read by nothing else; it is not part of this      *)
(* state.                                                                   *)

\* The display the platform reports (Server::new, get_info()).
display_info == [width |-> 64, height |-> 48]

RenderEngine_new(info) ==
    [display_info |-> info,
     layers |-> LayerManager_new,
     windows |-> << >>,
     damage |-> DamageTracker_set_size(DamageTracker_new, info.width, info.height),
     next_window_id |-> 1,
     frame_count |-> 0,
     focused_window |-> None,
     cursor_pos |-> PointZERO,
     cursor_visible |-> TRUE]

RenderEngine_size(e) == Size(e.display_info.width, e.display_info.height)

HasWindow(e, id) == id \in DOMAIN e.windows

\* BTreeMap::insert / BTreeMap::remove on the id -> Window map
MapInsert(m, k, v) == [i \in DOMAIN m \cup {k} |-> IF i = k THEN v ELSE m[i]]

MapRemove(m, k) == [i \in DOMAIN m \ {k} |-> m[i]]

\* Faulty variant of RenderEngine_create_window: the id is one more than the
\* number of live windows.
RenderEngine_create_window_counting_windows(e, size, shm, layer, title) ==
    LET id == Cardinality(DOMAIN e.windows) + 1
        window == [Window_new(id, size, shm) EXCEPT !.layer = layer, !.title = title]
    IN  [e EXCEPT !.next_window_id = id + 1,
                  !.windows = MapInsert(@, id, window),
                  !.layers = LayerManager_add_window_to_layer(@, id, layer),
                  !.damage = DamageTracker_add(@, Rect_from_size(size))]


\* The id create_window hands out is e.next_window_id.
RenderEngine_create_window(e, size, shm, layer, title) ==
    LET id == e.next_window_id
        window == [Window_new(id, size, shm) EXCEPT !.layer = layer, !.title = title]
    IN  [e EXCEPT !.next_window_id = id + 1,
                  !.windows = MapInsert(@, id, window),
                  !.layers = LayerManager_add_window_to_layer(@, id, layer),
                  !.damage = DamageTracker_add(@, Rect_from_size(size))]

RenderEngine_destroy_window(e, id) ==
    IF HasWindow(e, id)
    THEN [e EXCEPT !.windows = MapRemove(@, id),
                   !.damage = DamageTracker_add(@, Window_rect(e.windows[id])),
                   !.layers = LayerManager_remove_window(@, id),
                   !.focused_window = IF @ = Some(id) THEN None ELSE @]
    ELSE e

RenderEngine_move_window(e, id, x, y) ==
    IF HasWindow(e, id)
    THEN LET moved == Window_move_to(e.windows[id], x, y)
         IN  [e EXCEPT !.windows[id] = moved,
                       !.damage = DamageTracker_add(
                                      DamageTracker_add(@, Window_rect(e.windows[id])),
                                      Window_rect(moved))]
    ELSE e

RenderEngine_bring_to_front(e, id) ==
    IF HasWindow(e, id)
    THEN [e EXCEPT !.layers[e.windows[id].layer] = Layer_bring_to_front(@, id),
                   !.damage = DamageTracker_add(@, Window_rect(e.windows[id]))]
    ELSE e

RenderEngine_send_to_back(e, id) ==
    IF HasWindow(e, id)
    THEN [e EXCEPT !.layers[e.windows[id].layer] = Layer_send_to_back(@, id),
                   !.damage = DamageTracker_add(@, Window_rect(e.windows[id]))]
    ELSE e

RenderEngine_set_window_layer(e, id, new_layer) ==
    IF HasWindow(e, id) /\ e.windows[id].layer # new_layer
    THEN [e EXCEPT !.layers = LayerManager_move_window(@, id, e.windows[id].layer, new_layer),
                   !.windows[id] = Window_set_layer(@, new_layer),
                   !.damage = DamageTracker_add(@, Window_rect(e.windows[id]))]
    ELSE e

RenderEngine_mark_window_has_content(e, id) ==
    IF HasWindow(e, id) /\ ~e.windows[id].has_content
    THEN [e EXCEPT !.windows[id] = Window_set_has_content(@),
                   !.damage = DamageTracker_add(@, Window_rect(e.windows[id]))]
    ELSE e

RenderEngine_mark_damage(e, id) ==
    IF HasWindow(e, id)
    THEN [e EXCEPT !.damage = DamageTracker_add(@, Window_rect(e.windows[id]))]
    ELSE e

RenderEngine_full_screen_damage(e) ==
    [e EXCEPT !.damage = DamageTracker_damage_full(@, e.display_info.width,
                                                   e.display_info.height)]

\* The loop of window_at_point over the ids iter_top_to_bottom yields.
RECURSIVE FirstHit(_, _, _, _, _)
FirstHit(e, ids, i, x, y) ==
    IF i > Len(ids) THEN None
    ELSE IF /\ HasWindow(e, ids[i])
            /\ Window_is_visible(e.windows[ids[i]])
            /\ Window_contains_point(e.windows[ids[i]], x, y)
         THEN Some(ids[i])
         ELSE FirstHit(e, ids, i + 1, x, y)

RenderEngine_window_at_point(e, x, y) ==
    FirstHit(e, LayerManager_iter_top_to_bottom(e.layers), 1, x, y)

\* Damage the rect of window `o` (an Option<u32>) when it names a live window.
DamageOptWindow(e, o) ==
    IF o # None /\ HasWindow(e, Unwrap(o))
    THEN [e EXCEPT !.damage = DamageTracker_add(@, Window_rect(e.windows[Unwrap(o)]))]
    ELSE e

RenderEngine_set_focus(e, id) ==
    IF e.focused_window # id
    THEN DamageOptWindow([DamageOptWindow(e, e.focused_window)
                             EXCEPT !.focused_window = id], id)
    ELSE e

\* render() when present() succeeds: cursor, frame count, composition, damage cleared.
RenderEngine_render(e, mouse_x, mouse_y) ==
    [e EXCEPT !.cursor_pos = Point(mouse_x, mouse_y),
              !.frame_count = @ + 1,
              !.damage = DamageTracker_clear(@)]

\* render() when present() fails: the steps before `self.present()?` have run.
RenderEngine_render_failed(e, mouse_x, mouse_y) ==
    [e EXCEPT !.cursor_pos = Point(mouse_x, mouse_y),
              !.frame_count = @ + 1]

\* Color::REDSTONE_SECONDARY and Color::REDSTONE_ACCENT of gfx_types: two opaque
\* colours.
BACKGROUND_COLOR == Argb(255, 34, 34, 34)

REDSTONE_ACCENT == Argb(255, 238, 102, 34)

SHADOW_COLOR == Argb(64, 0, 0, 0)

SHADOW_OFFSET == Point(4, 4)

SHADOW_BLUR == 8

\* A build of the crate: with overflow checks or without, and how its
\* gfx_types::Rect reads a wrapped height (StrokeSide).
Build(checks, wide) == [checks |-> checks, wide |-> wide]

\* render(), the clear of the backbuffer before the windows are composed
RenderEngine_clear_backbuffer(backbuffer, dst_size) ==
    Blitter_fill_rect(backbuffer, dst_size, Rect_from_size(dst_size), BACKGROUND_COLOR)

\* composite_window of `window`, whose surface holds src_pixels, on the
\* backbuffer; focused: the engine's focused_window is this window.
RenderEngine_composite_window(backbuffer, dst_size, window, src_pixels, focused, build) ==
    LET shadowed ==
            IF Window_has_shadow(window)
            THEN Blitter_draw_shadow(backbuffer, dst_size, Window_rect(window),
                                     SHADOW_OFFSET, SHADOW_BLUR, SHADOW_COLOR)
            ELSE backbuffer
        c == BlitCall(dst_size, src_pixels, window.size, Rect_from_size(window.size),
                      window.position, build.checks)
        blitted == IF Window_is_transparent(window)
                   THEN Blitter_blit_alpha(shadowed, c)
                   ELSE Blitter_blit_opaque(shadowed, c)
    IN  IF blitted.panicked THEN blitted
        ELSE IF focused /\ Window_has_decorations(window)
        THEN Blitter_stroke_rect(blitted.dst, dst_size, Window_rect(window), 2,
                                 REDSTONE_ACCENT, build)
        ELSE blitted

-----------------------------------------------------------------------------
(* The server's state as one value, so that handlers compose as functions.  *)
(* sent collects, in order, the platform calls (SharedMemory::create,       *)
(* Port::connect, Port::send, time::sleep, println!, write_pixels) that the *)
(* handling of one message or one render makes.                             *)

State ==
    [inbox |-> inbox, render_engine |-> render_engine, input |-> input, pc |-> pc,
     frame_count |-> frame_count, client_ports |-> client_ports,
     focused_window |-> focused_window, mouse |-> mouse, drag |-> drag,
     click |-> click, taskbar_port |-> taskbar_port, run_result |-> run_result,
     sent |-> <<>>]

\* A platform call.  For "send", op is the opcode of the message sent to `port`;
\* for "println", op names the line logged; for "connect" and "shm_create",
\* event_type is the outcome ("ok" or "err").
Call(call, port, op, event_type, window_id, param1, param2, title) ==
    [call |-> call, port |-> port, op |-> op, event_type |-> event_type,
     window_id |-> window_id, param1 |-> param1, param2 |-> param2, title |-> title]

Platform(s, c) == [s EXCEPT !.sent = Append(@, c)]

\* redpowder::println! of the line `line` with the window id it prints (0: none)
Println(line, window_id) == Call("println", "", line, "", window_id, 0, 0, "")

-----------------------------------------------------------------------------
(* The server's inbox (Server.port, created by Port::create in Server::new): *)
(* the messages sent to it and not yet received, oldest first, each with its *)
(* number in the order of arrival; how many have arrived; how many recv has  *)
(* returned.                                                                *)

Port_new == [queue |-> <<>>, arrived |-> 0, received |-> 0]

\* A client's send of msg to the inbox
Port_send(p, msg) ==
    [p EXCEPT !.queue = Append(@, [seq |-> p.arrived + 1, msg |-> msg]),
              !.arrived = @ + 1]

\* The inbox after a recv that returned its oldest message
Port_received(p) == [p EXCEPT !.queue = Tail(@), !.received = @ + 1]

-----------------------------------------------------------------------------
(* server/state.rs : DragState, ClickState, MouseState *)

DragState_new == [window_id |-> None, offset_x |-> 0, offset_y |-> 0]

DragState_start(d, window_id, offset_x, offset_y) ==
    [window_id |-> Some(window_id), offset_x |-> offset_x, offset_y |-> offset_y]

DragState_stop(d) == [d EXCEPT !.window_id = None]

ClickState_new == [last_frame |-> 0, last_window |-> None]

DoubleClickFrames == 30

ClickState_is_double_click(c, window_id, current_frame) ==
    /\ c.last_window = Some(window_id)
    /\ current_frame > c.last_frame
    /\ (current_frame - c.last_frame) < DoubleClickFrames

ClickState_register(c, window_id, frame) ==
    [last_frame |-> frame, last_window |-> Some(window_id)]

ClickState_clear(c) == [c EXCEPT !.last_window = None]

MouseState_new == [x |-> 0, y |-> 0, prev_buttons |-> 0]

MouseState_update(m, x, y) == [m EXCEPT !.x = x, !.y = y]

MouseState_save_buttons(m, buttons) == [m EXCEPT !.prev_buttons = buttons]

\* buttons & 0x01
LeftBit(buttons) == buttons % 2 = 1

MouseState_left_just_pressed(m, current_buttons) ==
    LeftBit(current_buttons) /\ ~LeftBit(m.prev_buttons)

MouseState_left_just_released(m, current_buttons) ==
    ~LeftBit(current_buttons) /\ LeftBit(m.prev_buttons)

MouseState_left_pressed(m, current_buttons) == LeftBit(current_buttons)

-----------------------------------------------------------------------------
(* input/manager.rs : InputManager *)

InputManager_new ==
    [mouse |-> [x |-> 0, y |-> 0, buttons |-> 0],
     mouse_pos |-> PointZERO,
     last_key |-> None,
     prev_buttons |-> 0]

InputManager_update_from_service(i, event_type, key_code, pressed, x, y, buttons) ==
    IF event_type = 1
    THEN [i EXCEPT !.last_key = Some(<<key_code % 256, pressed = 1>>)]
    ELSE IF event_type = 2
    THEN [i EXCEPT !.prev_buttons = i.mouse.buttons,
                   !.mouse = [x |-> x, y |-> y, buttons |-> buttons % 256],
                   !.mouse_pos = Point(x, y)]
    ELSE i

-----------------------------------------------------------------------------
(* server/dispatch.rs *)

ClientPortsFind(ports, window_id) ==
    LET hits == {i \in 1..Len(ports) : ports[i].window_id = window_id}
    IN  IF hits = {} THEN None
        ELSE Some(ports[CHOOSE i \in hits : \A j \in hits : i <= j])

send_event_to_window(s, window_id, event_type, param1, param2) ==
    LET client == ClientPortsFind(s.client_ports, window_id)
    IN  IF client # None
        THEN Platform(s, Call("send", Unwrap(client).port, "EVENT_INPUT", event_type,
                              window_id, param1, param2, ""))
        ELSE s

dispatch_key_event(s, window_id, key_code, pressed) ==
    send_event_to_window(s, window_id,
                         IF pressed THEN "KEY_DOWN" ELSE "KEY_UP", key_code, 0)

dispatch_mouse_event(s, window_id, rel_x, rel_y, buttons, pressed) ==
    send_event_to_window(s, window_id,
                         IF pressed THEN "MOUSE_DOWN" ELSE "MOUSE_UP",
                         U16(rel_x),
                         HalfWords(U16(rel_y), buttons % 65536))

send_lifecycle_event(s, event_type, window_id, title) ==
    IF s.taskbar_port # None
    THEN Platform(s, Call("send", Unwrap(s.taskbar_port), "EVENT_WINDOW_LIFECYCLE",
                          event_type, window_id, 0, 0, title))
    ELSE s

-----------------------------------------------------------------------------
(* server/handlers.rs *)

determine_layer(flags, y) ==
    IF WindowFlags_has(flags, "OVERLAY") THEN "Overlay"
    ELSE IF WindowFlags_has(flags, "BACKGROUND") THEN "Background"
    ELSE IF WindowFlags_has(flags, "BORDERLESS") /\ y = 0 THEN "Panel"
    ELSE "Normal"

ConnectAttempts == 10

ConnectRetrySleepMs == 10

\* Faulty variant of ConnectLoop: it sleeps after the last failed attempt too.
RECURSIVE ConnectLoop_sleeping_after_last(_, _, _, _, _, _, _)
ConnectLoop_sleeping_after_last(s, attempt, fails, port_name, window_id, shm_handle, buffer_size) ==
    IF attempt >= ConnectAttempts THEN s
    ELSE IF attempt >= fails
    THEN LET connected == Platform(s, Call("connect", port_name, "", "ok", 0, 0, 0, ""))
             replied == Platform(connected,
                                 Call("send", port_name, "WINDOW_CREATED", "", window_id,
                                      shm_handle, buffer_size, ""))
         IN  [replied EXCEPT !.client_ports =
                                 Append(@, [window_id |-> window_id, port |-> port_name])]
    ELSE ConnectLoop_sleeping_after_last(
             Platform(Platform(s, Call("connect", port_name, "", "err", 0, 0, 0, "")),
                      Call("sleep", "", "", "", 0, ConnectRetrySleepMs, 0, "")),
             attempt + 1, fails, port_name, window_id, shm_handle, buffer_size)

\* The loop of connect_and_respond from `attempt` on, when the first `fails`
\* calls of Port::connect fail and every later one succeeds.
RECURSIVE ConnectLoop(_, _, _, _, _, _, _)
ConnectLoop(s, attempt, fails, port_name, window_id, shm_handle, buffer_size) ==
    IF attempt >= ConnectAttempts THEN s
    ELSE IF attempt >= fails
    THEN LET connected == Platform(s, Call("connect", port_name, "", "ok", 0, 0, 0, ""))
             replied == Platform(connected,
                                 Call("send", port_name, "WINDOW_CREATED", "", window_id,
                                      shm_handle, buffer_size, ""))
         IN  [replied EXCEPT !.client_ports =
                                 Append(@, [window_id |-> window_id, port |-> port_name])]
    ELSE LET failed == Platform(s, Call("connect", port_name, "", "err", 0, 0, 0, ""))
             slept == IF attempt < ConnectAttempts - 1
                      THEN Platform(failed, Call("sleep", "", "", "", 0,
                                                 ConnectRetrySleepMs, 0, ""))
                      ELSE Platform(failed, Println("Falha ao conectar porta", 0))
         IN  ConnectLoop(slept, attempt + 1, fails, port_name, window_id, shm_handle,
                         buffer_size)

connect_and_respond(s, fails, port_name, window_id, shm_handle, buffer_size) ==
    ConnectLoop(s, 0, fails, port_name, window_id, shm_handle, buffer_size)

\* A fixed-size text field of a request: the text up to the first NUL and whether
\* those bytes are valid UTF-8.
TextField(text, utf8) == [text |-> text, utf8 |-> utf8]

\* handle_create_window, step 7: the request's flags go to the new window.
SetWindowFlags(e, window_id, flags) ==
    IF HasWindow(e, window_id)
    THEN [e EXCEPT !.windows[window_id].flags = flags]
    ELSE e

\* handle_create_window, step 8: connect to the reply port when its name is UTF-8.
RespondToClient(s, req, env, window_id, buffer_size) ==
    IF req.reply_port.utf8
    THEN connect_and_respond(s, env.connect_fails, req.reply_port.text,
                             window_id, env.shm_handle, buffer_size)
    ELSE s

\* handle_create_window, steps 1 and 2: the u32 products req.width * req.height
\* * 4 (bytes asked of SharedMemory::create) and req.width * req.height (pixels
\* filled with black).  An overflow panics in a build with overflow checks and
\* wraps in a build without.
CreateSizes(width, height, checks) ==
    LET pixels == u32_overflowing_mul(width, height)
        bytes == u32_overflowing_mul(pixels.value, 4)
    IN  [panicked |-> checks /\ (pixels.overflow \/ bytes.overflow),
         buffer_size |-> bytes.value,
         pixels |-> pixels.value]

\* handle_create_window after SharedMemory::create has returned `shm`.
\* env.connect_fails is the number of Port::connect calls that fail first.
CreateWindowWithShm(s, req, env, buffer_size) ==
    LET shm == [id |-> env.shm_handle, size |-> buffer_size,
                filled |-> CreateSizes(req.width, req.height, FALSE).pixels]
        size == Size(req.width, req.height)
        layer == determine_layer(req.flags, req.y)
        title == IF req.title.utf8 THEN req.title.text ELSE "Untitled"
        window_id == s.render_engine.next_window_id
        s0 == Platform(s, Call("shm_create", "", "", "ok", 0, buffer_size, 0, ""))
        s1 == [s0 EXCEPT !.render_engine =
                  SetWindowFlags(
                      RenderEngine_move_window(
                          RenderEngine_create_window(@, size, shm, layer, title),
                          window_id, req.x, req.y),
                      window_id, req.flags)]
        s2 == RespondToClient(s1, req, env, window_id, buffer_size)
        s3 == send_lifecycle_event(s2, "CREATED", window_id, title)
        s4 == Platform(s3, Println("Janela criada", window_id))
    IN  [ok |-> TRUE, s |-> s4, window_id |-> window_id, layer |-> layer]

\* Faulty variant of handle_create_window: the window is registered before the
\* buffer is allocated, so a failed allocation leaves it behind.
handle_create_window_allocating_last(s, req, env) ==
    LET buffer_size == req.width * req.height * 4
        r == CreateWindowWithShm(s, req, env, buffer_size)
    IN  IF ~env.shm_ok
        THEN [ok |-> FALSE,
              s |-> [r.s EXCEPT !.sent = <<Call("shm_create", "", "", "err", 0,
                                                buffer_size, 0, "")>>],
              window_id |-> 0, layer |-> "Normal"]
        ELSE r

\* Returns [ok, s, window_id, layer]; ok = FALSE is the Err of SharedMemory::create.
\* The sizes of the requests of the specifications are small: no product overflows.
handle_create_window(s, req, env) ==
    LET buffer_size == CreateSizes(req.width, req.height, FALSE).buffer_size
    IN  IF ~env.shm_ok
        THEN [ok |-> FALSE,
              s |-> Platform(s, Call("shm_create", "", "", "err", 0, buffer_size, 0, "")),
              window_id |-> 0, layer |-> "Normal"]
        ELSE CreateWindowWithShm(s, req, env, buffer_size)

\* Faulty variant of handle_destroy_window: the window's entry stays in the
\* client registry.
handle_destroy_window_keeping_port(s, window_id) ==
    LET s0 == Platform(s, Println("Destruindo janela", window_id))
        s2 == send_lifecycle_event(s0, "DESTROYED", window_id, "")
    IN  [s2 EXCEPT !.render_engine =
                       RenderEngine_full_screen_damage(
                           RenderEngine_destroy_window(@, window_id))]


handle_destroy_window(s, window_id) ==
    LET s0 == Platform(s, Println("Destruindo janela", window_id))
        s1 == [s0 EXCEPT !.client_ports =
                            SelectSeq(@, LAMBDA c : c.window_id # window_id)]
        s2 == send_lifecycle_event(s1, "DESTROYED", window_id, "")
    IN  [s2 EXCEPT !.render_engine =
                       RenderEngine_full_screen_damage(
                           RenderEngine_destroy_window(@, window_id))]

handle_commit_buffer(s, window_id) ==
    [s EXCEPT !.render_engine =
                  RenderEngine_mark_damage(
                      RenderEngine_mark_window_has_content(@, window_id), window_id)]

handle_minimize_window(s, window_id) ==
    IF HasWindow(s.render_engine, window_id)
    THEN LET s1 == [s EXCEPT !.render_engine.windows[window_id] = Window_minimize(@)]
             s2 == send_lifecycle_event(s1, "MINIMIZED", window_id,
                                        s1.render_engine.windows[window_id].title)
             s3 == [s2 EXCEPT !.render_engine = RenderEngine_full_screen_damage(@)]
         IN  Platform(s3, Println("Janela minimizada", window_id))
    ELSE s

\* Faulty variant of handle_restore_window: the window is not raised.
handle_restore_window_without_raise(s, window_id) ==
    IF HasWindow(s.render_engine, window_id)
    THEN LET s1 == [s EXCEPT !.render_engine.windows[window_id] = Window_restore(@)]
             s2 == send_lifecycle_event(s1, "RESTORED", window_id,
                                        s1.render_engine.windows[window_id].title)
             s3 == [s2 EXCEPT !.render_engine = RenderEngine_full_screen_damage(@)]
             s4 == Platform(s3, Println("Janela restaurada", window_id))
         IN  [s |-> s4, restored |-> Some(window_id)]
    ELSE [s |-> s, restored |-> None]

\* Returns [s, restored]: restored is the Option<u32> the handler returns.
handle_restore_window(s, window_id) ==
    IF HasWindow(s.render_engine, window_id)
    THEN LET s1 == [s EXCEPT !.render_engine.windows[window_id] = Window_restore(@)]
             s2 == send_lifecycle_event(s1, "RESTORED", window_id,
                                        s1.render_engine.windows[window_id].title)
             s3 == [s2 EXCEPT !.render_engine =
                                  RenderEngine_bring_to_front(
                                      RenderEngine_full_screen_damage(@), window_id)]
             s4 == Platform(s3, Println("Janela restaurada", window_id))
         IN  [s |-> s4, restored |-> Some(window_id)]
    ELSE [s |-> s, restored |-> None]

\* Returns [s, port]: port is the Option<Port> the handler returns.
\* listener is the name with NULs trimmed; connect_ok is Port::connect's outcome.
handle_register_taskbar(s, listener, connect_ok) ==
    LET name_str == IF listener.utf8 THEN listener.text ELSE ""
    IN  IF name_str # ""
        THEN LET s1 == Platform(s, Call("connect", name_str, "",
                                        IF connect_ok THEN "ok" ELSE "err", 0, 0, 0, ""))
                 s2 == Platform(s1, Println(IF connect_ok THEN "Taskbar registrada"
                                            ELSE "Falha ao conectar taskbar", 0))
             IN  [s |-> s2, port |-> IF connect_ok THEN Some(name_str) ELSE None]
        ELSE [s |-> s, port |-> None]

-----------------------------------------------------------------------------
(* server/server.rs : Server *)

FRAME_INTERVAL_MS == 16

TitleBarHeight == 24

ButtonSize == 20

\* Faulty variant of Server_set_focus: the engine is not told.
Server_set_focus_unseen_by_engine(s, id) == [s EXCEPT !.focused_window = id]

Server_set_focus(s, id) ==
    [s EXCEPT !.focused_window = id,
              !.render_engine = RenderEngine_set_focus(@, id)]

Server_get_relative_coords(s, window_id, x, y) ==
    IF HasWindow(s.render_engine, window_id)
    THEN Window_to_local(s.render_engine.windows[window_id], x, y)
    ELSE Point(x, y)

\* The double-click arm of handle_titlebar_click: maximize or restore.
ToggleMaximize(s, window_id) ==
    LET screen_size == RenderEngine_size(s.render_engine)
        win == s.render_engine.windows[window_id]
        toggled == IF win.state = "Maximized"
                   THEN Window_restore(win)
                   ELSE Window_maximize(win, screen_size)
        s1 == IF HasWindow(s.render_engine, window_id)
              THEN [s EXCEPT !.render_engine =
                                 RenderEngine_full_screen_damage(
                                     [@ EXCEPT !.windows[window_id] = toggled])]
              ELSE s
    IN  [s1 EXCEPT !.click = ClickState_clear(@)]

\* Faulty variant of Server_handle_titlebar_click: windows without decorations and
\* Background windows have a title bar too.
Server_handle_titlebar_click_on_any_window(s, window_id, x, y) ==
    IF ~HasWindow(s.render_engine, window_id) THEN s
    ELSE LET win == s.render_engine.windows[window_id]
             rect == Window_rect(win)
             rel_x == x - rect.x
             rel_y == y - rect.y
             w == rect.width
             close_x == w - ButtonSize - 2
             min_x == w - (ButtonSize * 2) - 6
         IN  IF ~(rel_y >= 0 /\ rel_y < TitleBarHeight) THEN s
             ELSE IF rel_x >= close_x /\ rel_x < close_x + ButtonSize
             THEN handle_destroy_window(
                      IF s.focused_window = Some(window_id)
                      THEN Server_set_focus(s, None) ELSE s,
                      window_id)
             ELSE IF rel_x >= min_x /\ rel_x < min_x + ButtonSize
             THEN handle_minimize_window(s, window_id)
             ELSE IF ClickState_is_double_click(s.click, window_id, s.frame_count)
             THEN ToggleMaximize(s, window_id)
             ELSE [s EXCEPT !.drag = DragState_start(@, window_id, rel_x, rel_y),
                            !.click = ClickState_register(@, window_id, s.frame_count)]

Server_handle_titlebar_click(s, window_id, x, y) ==
    IF ~HasWindow(s.render_engine, window_id) THEN s
    ELSE LET win == s.render_engine.windows[window_id]
             rect == Window_rect(win)
             rel_x == x - rect.x
             rel_y == y - rect.y
             w == rect.width
             close_x == w - ButtonSize - 2
             min_x == w - (ButtonSize * 2) - 6
         IN  IF ~Window_has_decorations(win) \/ win.layer = "Background" THEN s
             ELSE IF ~(rel_y >= 0 /\ rel_y < TitleBarHeight) THEN s
             ELSE IF rel_x >= close_x /\ rel_x < close_x + ButtonSize
             THEN handle_destroy_window(
                      IF s.focused_window = Some(window_id)
                      THEN Server_set_focus(s, None) ELSE s,
                      window_id)
             ELSE IF rel_x >= min_x /\ rel_x < min_x + ButtonSize
             THEN handle_minimize_window(s, window_id)
             ELSE IF ClickState_is_double_click(s.click, window_id, s.frame_count)
             THEN ToggleMaximize(s, window_id)
             ELSE [s EXCEPT !.drag = DragState_start(@, window_id, rel_x, rel_y),
                            !.click = ClickState_register(@, window_id, s.frame_count)]

\* handle_mouse_click: the taskbar is told of the newly focused window.
AnnounceFocus(s, window_id) ==
    IF HasWindow(s.render_engine, window_id)
    THEN send_lifecycle_event(s, "FOCUSED", window_id,
                              s.render_engine.windows[window_id].title)
    ELSE s

\* Faulty variant of RaiseIfNormal: the newly focused window stays where it is.
RaiseIfNormal_never(s, window_id) == s

\* Faulty variant of RaiseIfNormal: the newly focused window is raised whatever
\* its layer.
RaiseIfNormal_in_every_layer(s, window_id) ==
    [s EXCEPT !.render_engine = RenderEngine_bring_to_front(@, window_id)]


\* handle_mouse_click: a newly focused window of the Normal layer is raised.
RaiseIfNormal(s, window_id) ==
    IF /\ HasWindow(s.render_engine, window_id)
       /\ s.render_engine.windows[window_id].layer = "Normal"
    THEN [s EXCEPT !.render_engine = RenderEngine_bring_to_front(@, window_id)]
    ELSE s

\* The focus update of handle_mouse_click for the window under the pointer.
ClickFocus(s, window_id) ==
    IF s.focused_window # Some(window_id)
    THEN RaiseIfNormal(AnnounceFocus(Server_set_focus(s, Some(window_id)), window_id),
                       window_id)
    ELSE s

\* handle_mouse_click: MOUSE_DOWN in window-local coordinates.
DispatchClick(s, window_id, x, y, buttons) ==
    LET rel == Server_get_relative_coords(s, window_id, x, y)
    IN  dispatch_mouse_event(s, window_id, rel.x, rel.y, buttons, TRUE)

\* handle_mouse_click once window_at_point has returned `hit`.
ClickWindow(s, hit, x, y, buttons) ==
    IF hit = None THEN s
    ELSE Server_handle_titlebar_click(
             DispatchClick(ClickFocus(s, Unwrap(hit)), Unwrap(hit), x, y, buttons),
             Unwrap(hit), x, y)

Server_handle_mouse_click(s, x, y, buttons) ==
    ClickWindow(s, RenderEngine_window_at_point(s.render_engine, x, y), x, y, buttons)

\* Faulty variant of DragStep: the window also follows the pointer on the update
\* that releases the button.
DragStep_moving_on_release(s, x, y, buttons) ==
    IF s.drag.window_id # None
    THEN LET moved == [s EXCEPT !.render_engine =
                           RenderEngine_full_screen_damage(
                               RenderEngine_move_window(@, Unwrap(s.drag.window_id),
                                                        x - s.drag.offset_x,
                                                        y - s.drag.offset_y))]
         IN  IF MouseState_left_pressed(s.mouse, buttons)
             THEN moved
             ELSE [moved EXCEPT !.drag = DragState_stop(@)]
    ELSE s

\* The drag block of process_mouse_input.
DragStep(s, x, y, buttons) ==
    IF s.drag.window_id # None
    THEN IF MouseState_left_pressed(s.mouse, buttons)
         THEN [s EXCEPT !.render_engine =
                            RenderEngine_full_screen_damage(
                                RenderEngine_move_window(@, Unwrap(s.drag.window_id),
                                                         x - s.drag.offset_x,
                                                         y - s.drag.offset_y))]
         ELSE [s EXCEPT !.drag = DragState_stop(@)]
    ELSE s

\* The release block of process_mouse_input.
ReleaseStep(s, x, y, buttons) ==
    IF MouseState_left_just_released(s.mouse, buttons)
    THEN LET s1 == IF s.focused_window # None
                   THEN LET focused == Unwrap(s.focused_window)
                            rel == Server_get_relative_coords(s, focused, x, y)
                        IN  dispatch_mouse_event(s, focused, rel.x, rel.y, buttons, FALSE)
                   ELSE s
         IN  [s1 EXCEPT !.drag = DragState_stop(@)]
    ELSE s

\* Faulty variant of Server_process_mouse_input: the button mask of the update
\* is not saved for the next one.
Server_process_mouse_input_forgetting_buttons(s, buttons) ==
    LET x == s.mouse.x
        y == s.mouse.y
        s1 == IF MouseState_left_just_pressed(s.mouse, buttons)
              THEN Server_handle_mouse_click(s, x, y, buttons)
              ELSE s
    IN  ReleaseStep(DragStep(s1, x, y, buttons), x, y, buttons)

Server_process_mouse_input(s, buttons) ==
    LET x == s.mouse.x
        y == s.mouse.y
        s1 == IF MouseState_left_just_pressed(s.mouse, buttons)
              THEN Server_handle_mouse_click(s, x, y, buttons)
              ELSE s
        s2 == DragStep(s1, x, y, buttons)
        s3 == ReleaseStep(s2, x, y, buttons)
    IN  [s3 EXCEPT !.mouse = MouseState_save_buttons(@, buttons)]

\* handle_input_update: a key event goes to the focused window.
DispatchKey(s, req) ==
    IF req.event_type = 1 /\ s.focused_window # None
    THEN dispatch_key_event(s, Unwrap(s.focused_window), req.key_code,
                            req.key_pressed = 1)
    ELSE s

\* handle_input_update: a mouse event updates the pointer and is processed.
ProcessMouse(s, req) ==
    IF req.event_type = 2
    THEN Server_process_mouse_input(
             [s EXCEPT !.mouse = MouseState_update(@, req.mouse_x, req.mouse_y)],
             req.mouse_buttons)
    ELSE s

Server_handle_input_update(s, req) ==
    ProcessMouse(
        DispatchKey(
            [s EXCEPT !.input =
                InputManager_update_from_service(@, req.event_type, req.key_code,
                                                 req.key_pressed, req.mouse_x,
                                                 req.mouse_y, req.mouse_buttons)],
            req),
        req)

\* Faulty variant of AfterCreate: the new window is focused whatever its layer.
AfterCreate_focusing_every_layer(r) ==
    IF ~r.ok
    THEN [r.s EXCEPT !.pc = "exited", !.run_result = Some("Err(SharedMemory::create)")]
    ELSE Server_set_focus(r.s, Some(r.window_id))

\* What the CREATE_WINDOW arm does with the result r of handle_create_window.
AfterCreate(r) ==
    IF ~r.ok
    THEN [r.s EXCEPT !.pc = "exited", !.run_result = Some("Err(SharedMemory::create)")]
    ELSE IF r.layer # "Background"
    THEN Server_set_focus(r.s, Some(r.window_id))
    ELSE r.s

\* The CREATE_WINDOW arm of handle_message: `?` on the handler's result ends run().
HandleCreate(s, req, env) == AfterCreate(handle_create_window(s, req, env))

\* Faulty variant of HandleDestroy: the focus is left on the destroyed window.
HandleDestroy_keeping_focus(s, window_id) == handle_destroy_window(s, window_id)

\* The DESTROY_WINDOW arm of handle_message.
HandleDestroy(s, window_id) ==
    handle_destroy_window(
        IF s.focused_window = Some(window_id) THEN Server_set_focus(s, None) ELSE s,
        window_id)

\* What the RESTORE_WINDOW arm does with the result r of handle_restore_window.
AfterRestore(r) == IF r.restored # None THEN Server_set_focus(r.s, r.restored) ELSE r.s

\* The RESTORE_WINDOW arm of handle_message.
HandleRestore(s, window_id) == AfterRestore(handle_restore_window(s, window_id))

\* The default arm of handle_message: an opcode no arm matches is logged.
HandleUnknownOpcode(s) == Platform(s, Println("Opcode desconhecido", 0))


\* What the REGISTER_TASKBAR arm does with the result r of handle_register_taskbar.
AfterRegisterTaskbar(r) ==
    IF r.port # None THEN [r.s EXCEPT !.taskbar_port = r.port] ELSE r.s

\* The REGISTER_TASKBAR arm of handle_message.
HandleRegisterTaskbar(s, listener, connect_ok) ==
    AfterRegisterTaskbar(handle_register_taskbar(s, listener, connect_ok))

\* A message in the inbox: its opcode, the window id it names and, for
\* CREATE_WINDOW, INPUT_UPDATE and REGISTER_TASKBAR, the rest of the request.
Message(op, window_id, req) == [op |-> op, window_id |-> window_id, req |-> req]

\* handle_message for a message of at least 4 bytes: the match on its opcode.
\* env holds the outcomes of the platform calls the handler makes.
Server_handle_message(s, msg, env) ==
    IF msg.op = "CREATE_WINDOW" THEN HandleCreate(s, msg.req, env)
    ELSE IF msg.op = "COMMIT_BUFFER" THEN handle_commit_buffer(s, msg.window_id)
    ELSE IF msg.op = "DESTROY_WINDOW" THEN HandleDestroy(s, msg.window_id)
    ELSE IF msg.op = "INPUT_UPDATE" THEN Server_handle_input_update(s, msg.req)
    ELSE IF msg.op = "MINIMIZE_WINDOW" THEN handle_minimize_window(s, msg.window_id)
    ELSE IF msg.op = "RESTORE_WINDOW" THEN HandleRestore(s, msg.window_id)
    ELSE IF msg.op = "REGISTER_TASKBAR"
    THEN HandleRegisterTaskbar(s, msg.req, env.connect_fails = 0)
    ELSE HandleUnknownOpcode(s)

\* Faulty variant of DrainEnds: the drain may stop with messages pending.
DrainEnds_with_messages_pending(p) == TRUE

\* process_messages: recv reports no message (Ok(0) or Err) and the loop ends.
DrainEnds(p) == p.queue = <<>>

\* process_messages: recv has returned the oldest message and handling it led
\* to state s.
Received(s) == [s EXCEPT !.inbox = Port_received(@)]


-----------------------------------------------------------------------------
(* The messages clients and the input service put in the inbox, and the     *)
(* outcomes of the platform calls a handler makes.                          *)

WindowIds == 1..MaxWindows

WindowSizes == {Size(60, 30)}

CreateRequest(size, x, y, flags, title, reply_port) ==
    [width |-> size.width, height |-> size.height, x |-> x, y |-> y,
     flags |-> flags, title |-> title, reply_port |-> reply_port]

CreateRequests ==
    {CreateRequest(sz, 0, 0, fl, TextField("A", TRUE), TextField("r", TRUE)) :
        sz \in WindowSizes, fl \in {{}, {"BACKGROUND"}, {"BORDERLESS"}}}

\* Port::connect calls that fail before the first that succeeds (10: none does).
ConnectOutcomes == {0, 10}

ShmHandle == 7

CreateEnv(shm_ok, fails) ==
    [shm_ok |-> shm_ok, shm_handle |-> ShmHandle, connect_fails |-> fails]

MouseXs == {5, 20, 45}

MouseYs == {5}

ButtonMasks == {0, 1}

InputRequest(event_type, key_code, key_pressed, mouse_x, mouse_y, mouse_buttons) ==
    [event_type |-> event_type, key_code |-> key_code, key_pressed |-> key_pressed,
     mouse_x |-> mouse_x, mouse_y |-> mouse_y, mouse_buttons |-> mouse_buttons]

MouseRequests ==
    {InputRequest(2, 0, 0, x, y, b) : x \in MouseXs, y \in MouseYs, b \in ButtonMasks}

TaskbarPort == TextField("tb", TRUE)

\* The server's fields and the calls of the step are those of s.
ServerBecomes(s) ==
    /\ inbox' = s.inbox
    /\ render_engine' = s.render_engine
    /\ input' = s.input
    /\ pc' = s.pc
    /\ frame_count' = s.frame_count
    /\ client_ports' = s.client_ports
    /\ focused_window' = s.focused_window
    /\ mouse' = s.mouse
    /\ drag' = s.drag
    /\ click' = s.click
    /\ taskbar_port' = s.taskbar_port
    /\ run_result' = s.run_result
    /\ sent' = s.sent

\* The next state is s.
Becomes(s) == ServerBecomes(s) /\ UNCHANGED <<canvas, added, held>>

-----------------------------------------------------------------------------
(* Server::new and Server::run *)

Init ==
    /\ inbox = Port_new
    /\ render_engine = RenderEngine_new(display_info)
    /\ input = InputManager_new
    /\ pc = "recv"
    /\ frame_count = 0
    /\ client_ports = <<>>
    /\ focused_window = None
    /\ mouse = MouseState_new
    /\ drag = DragState_new
    /\ click = ClickState_new
    /\ taskbar_port = None
    /\ run_result = None
    /\ sent = <<>>
    /\ canvas = Backbuffer_with_dimensions(CanvasSize.width, CanvasSize.height)
    /\ added = {}
    /\ held = {}

\* recv returns a CREATE_WINDOW and SharedMemory::create succeeds; at most
\* `limit` windows are ever created.
CreateWindowUpTo(limit) ==
    /\ pc = "recv"
    /\ render_engine.next_window_id <= limit
    /\ \E req \in CreateRequests, fails \in ConnectOutcomes :
          Becomes(HandleCreate(State, req, CreateEnv(TRUE, fails)))

RecvCreateWindow == CreateWindowUpTo(MaxWindows)

\* recv returns a CREATE_WINDOW and SharedMemory::create fails.
RecvCreateWindowNoShm ==
    /\ pc = "recv"
    /\ \E req \in CreateRequests :
          Becomes(HandleCreate(State, req, CreateEnv(FALSE, 0)))

RecvCommitBuffer ==
    /\ pc = "recv"
    /\ \E id \in WindowIds : Becomes(handle_commit_buffer(State, id))

RecvDestroyWindow ==
    /\ pc = "recv"
    /\ \E id \in WindowIds : Becomes(HandleDestroy(State, id))

RecvMinimizeWindow ==
    /\ pc = "recv"
    /\ \E id \in WindowIds : Becomes(handle_minimize_window(State, id))

RecvRestoreWindow ==
    /\ pc = "recv"
    /\ \E id \in WindowIds : Becomes(HandleRestore(State, id))

RecvRegisterTaskbar ==
    /\ pc = "recv"
    /\ \E ok \in BOOLEAN : Becomes(HandleRegisterTaskbar(State, TaskbarPort, ok))

RecvInputUpdate ==
    /\ pc = "recv"
    /\ \E req \in MouseRequests : Becomes(Server_handle_input_update(State, req))

\* recv returns empty (or an error): process_messages returns Ok.
RecvEmpty ==
    /\ pc = "recv"
    /\ frame_count < MaxFrames
    /\ Becomes([State EXCEPT !.pc = "render"])

\* render succeeds; frame_count += 1; sleep; next iteration.
Render ==
    /\ pc = "render"
    /\ Becomes([State EXCEPT
                   !.render_engine = RenderEngine_render(@, mouse.x, mouse.y),
                   !.frame_count = @ + 1,
                   !.pc = "recv",
                   !.sent = <<Call("write_pixels", "", "", "ok", 0, 0, 0, ""),
                              Call("sleep", "", "", "", 0, FRAME_INTERVAL_MS, 0, "")>>])

\* present fails: render returns the platform error and run() returns it.
RenderFatal ==
    /\ pc = "render"
    /\ Becomes([State EXCEPT
                   !.render_engine = RenderEngine_render_failed(@, mouse.x, mouse.y),
                   !.pc = "exited",
                   !.run_result = Some("Err(write_pixels)"),
                   !.sent = <<Call("write_pixels", "", "", "err", 0, 0, 0, "")>>])

Next ==
    \/ RecvCreateWindow
    \/ RecvCreateWindowNoShm
    \/ RecvCommitBuffer
    \/ RecvDestroyWindow
    \/ RecvMinimizeWindow
    \/ RecvRestoreWindow
    \/ RecvRegisterTaskbar
    \/ RecvInputUpdate
    \/ RecvEmpty
    \/ Render
    \/ RenderFatal

Spec == Init /\ [][Next]_vars

-----------------------------------------------------------------------------
(* The server without the input service: only client and taskbar messages   *)
(* arrive.                                                                  *)

RecvCreateWindowOfClients == CreateWindowUpTo(MaxWindows)

NextMessages ==
    \/ RecvCreateWindowOfClients
    \/ RecvCreateWindowNoShm
    \/ RecvCommitBuffer
    \/ RecvDestroyWindow
    \/ RecvMinimizeWindow
    \/ RecvRestoreWindow
    \/ RecvRegisterTaskbar
    \/ RecvEmpty
    \/ Render
    \/ RenderFatal

SpecMessages == Init /\ [][NextMessages]_vars

-----------------------------------------------------------------------------
(* The server without the input service, with clients that also send        *)
(* malformed messages: fewer than 4 bytes, an opcode no arm matches, and    *)
(* CREATE_WINDOW whose title or reply-port name is not valid UTF-8.         *)

BadTextCreateRequests ==
    {CreateRequest(sz, 0, 0, {}, TextField("A", utf8[1]), TextField("r", utf8[2])) :
        sz \in WindowSizes,
        utf8 \in (BOOLEAN \X BOOLEAN) \ {<<TRUE, TRUE>>}}

\* recv returns fewer than 4 bytes: handle_message returns Ok at once.
RecvShort ==
    /\ pc = "recv"
    /\ Becomes(State)

RecvUnknownOpcode ==
    /\ pc = "recv"
    /\ Becomes(HandleUnknownOpcode(State))

RecvCreateWindowBadText ==
    /\ pc = "recv"
    /\ render_engine.next_window_id <= MaxWindows
    /\ \E req \in BadTextCreateRequests, fails \in ConnectOutcomes :
          Becomes(HandleCreate(State, req, CreateEnv(TRUE, fails)))

NextClients ==
    \/ NextMessages
    \/ RecvShort
    \/ RecvUnknownOpcode
    \/ RecvCreateWindowBadText

SpecClients == Init /\ [][NextClients]_vars

-----------------------------------------------------------------------------
(* The server without the input service, with reply ports that accept the   *)
(* connection at any of the attempts of connect_and_respond, or at none.    *)

\* Port::connect calls that fail before the first that succeeds
\* (ConnectAttempts: none succeeds).
ConnectFailures == 0..ConnectAttempts

RecvCreateWindowRetrying ==
    /\ pc = "recv"
    /\ render_engine.next_window_id <= MaxWindows
    /\ \E req \in CreateRequests \cup BadTextCreateRequests, fails \in ConnectFailures :
          \E handled \in {HandleCreate(State, req, CreateEnv(TRUE, fails))} :
              Becomes(handled)

NextConnect ==
    \/ RecvCreateWindowRetrying
    \/ RecvCreateWindowNoShm
    \/ RecvCommitBuffer
    \/ RecvDestroyWindow
    \/ RecvRegisterTaskbar
    \/ RecvEmpty
    \/ Render
    \/ RenderFatal

SpecConnect == Init /\ [][NextConnect]_vars

\* Window sizes whose u32 products reach 2^32: 60 x 30, 2^15 x 30, 1 x 2^16,
\* 2^15 x 2^15 (width * height fits, * 4 does not) and 2^16 x 2^16.
WideSizes ==
    {Size(60, 30), Size(32768, 30), Size(1, 65536), Size(32768, 32768),
     Size(65536, 65536)}

WideCreateRequests ==
    {CreateRequest(sz, 0, 0, fl, TextField("A", TRUE), TextField("r", TRUE)) :
        sz \in WideSizes, fl \in {{}, {"BACKGROUND"}}}

\* recv returns a CREATE_WINDOW of any u32 size.  `checks` is the build: with
\* overflow checks an overflowing product panics, without it wraps, and then
\* pixels.fill writes width * height words through a mapping of buffer_size
\* bytes; a fill past the mapping either faults, which ends the process, or
\* goes unnoticed by the handler.
RecvCreateWindowWide ==
    /\ pc = "recv"
    /\ render_engine.next_window_id <= MaxWindows
    /\ \E req \in WideCreateRequests, checks \in BOOLEAN, faults \in BOOLEAN :
          LET sizes == CreateSizes(req.width, req.height, checks)
              past == Widened(Word(sizes.buffer_size), 8) # Product(Word(sizes.pixels), Word(4))
          IN  \E handled \in
                    {IF sizes.panicked \/ (past /\ faults)
                     THEN [State EXCEPT !.pc = "panicked"]
                     ELSE HandleCreate(State, req, CreateEnv(TRUE, 0))} :
                  Becomes(handled)

NextSizes ==
    \/ RecvCreateWindowWide
    \/ RecvCreateWindowNoShm
    \/ RecvCommitBuffer
    \/ RecvDestroyWindow
    \/ RecvRegisterTaskbar
    \/ RecvEmpty
    \/ Render
    \/ RenderFatal

SpecSizes == Init /\ [][NextSizes]_vars


-----------------------------------------------------------------------------
(* The server with decorated windows of reachable clients and the input     *)
(* service: windows are created, committed and destroyed while the pointer  *)
(* moves, clicks and drags.                                                 *)

RecvCreateDecorated ==
    /\ pc = "recv"
    /\ render_engine.next_window_id <= MaxWindows
    /\ \E req \in {r \in CreateRequests : r.flags = {}} :
          Becomes(HandleCreate(State, req, CreateEnv(TRUE, 0)))

NextPointer ==
    \/ RecvCreateDecorated
    \/ RecvCommitBuffer
    \/ RecvDestroyWindow
    \/ RecvInputUpdate
    \/ RecvEmpty
    \/ Render

SpecPointer == Init /\ [][NextPointer]_vars

-----------------------------------------------------------------------------
(* One drain of the inbox of a server with a taskbar, up to MaxClickWindows  *)
(* windows of reachable clients and the input service: the pointer presses  *)
(* and releases over the windows.                                           *)

RecvCreateClickable ==
    /\ pc = "recv"
    /\ render_engine.next_window_id <= MaxClickWindows
    /\ \E req \in CreateRequests :
          Becomes(HandleCreate(State, req, CreateEnv(TRUE, 0)))

RecvCommitClickable ==
    /\ pc = "recv"
    /\ \E id \in 1..MaxClickWindows : Becomes(handle_commit_buffer(State, id))

NextClicks ==
    \/ RecvCreateClickable
    \/ RecvCommitClickable
    \/ RecvRegisterTaskbar
    \/ RecvInputUpdate

SpecClicks == Init /\ [][NextClicks]_vars

-----------------------------------------------------------------------------
(* One drain of the inbox of a server with up to MaxClickWindows windows of *)
(* reachable clients and the input service: clients create, commit,        *)
(* destroy, minimize and restore windows between the pointer's presses and  *)
(* releases.                                                                *)

RecvDestroyClickable ==
    /\ pc = "recv"
    /\ \E id \in 1..MaxClickWindows : Becomes(HandleDestroy(State, id))

RecvMinimizeClickable ==
    /\ pc = "recv"
    /\ \E id \in 1..MaxClickWindows : Becomes(handle_minimize_window(State, id))

RecvRestoreClickable ==
    /\ pc = "recv"
    /\ \E id \in 1..MaxClickWindows : Becomes(HandleRestore(State, id))

NextDesktop ==
    \/ RecvCreateClickable
    \/ RecvCommitClickable
    \/ RecvDestroyClickable
    \/ RecvMinimizeClickable
    \/ RecvRestoreClickable
    \/ RecvInputUpdate

SpecDesktop == Init /\ [][NextDesktop]_vars

\* The same clients and a taskbar, without the input service.
NextWindowStates ==
    \/ RecvCreateClickable
    \/ RecvDestroyClickable
    \/ RecvMinimizeClickable
    \/ RecvRestoreClickable
    \/ RecvRegisterTaskbar

SpecWindowStates == Init /\ [][NextWindowStates]_vars

-----------------------------------------------------------------------------
(* The same clients and the input service, with the mouse events sent to    *)
(* each window followed: `held` is the set of windows whose last mouse event *)
(* was a MOUSE_DOWN.                                                         *)

\* The windows the calls `calls` send the mouse event `event_type`.
MouseEventsIn(calls, event_type) ==
    {calls[i].window_id :
        i \in {j \in DOMAIN calls :
                  /\ calls[j].call = "send"
                  /\ calls[j].op = "EVENT_INPUT"
                  /\ calls[j].event_type = event_type}}

\* The next state is s, and the mouse events of the step are noted.
Noting(s) ==
    /\ ServerBecomes(s)
    /\ held' = (held \cup MouseEventsIn(s.sent, "MOUSE_DOWN"))
                   \ MouseEventsIn(s.sent, "MOUSE_UP")
    /\ UNCHANGED <<canvas, added>>

MouseCreateWindow ==
    /\ pc = "recv"
    /\ render_engine.next_window_id <= MaxClickWindows
    /\ \E req \in CreateRequests :
          \E handled \in {HandleCreate(State, req, CreateEnv(TRUE, 0))} : Noting(handled)

MouseCommitBuffer ==
    /\ pc = "recv"
    /\ \E id \in 1..MaxClickWindows :
          \E handled \in {handle_commit_buffer(State, id)} : Noting(handled)

MouseDestroyWindow ==
    /\ pc = "recv"
    /\ \E id \in 1..MaxClickWindows :
          \E handled \in {HandleDestroy(State, id)} : Noting(handled)

MouseRestoreWindow ==
    /\ pc = "recv"
    /\ \E id \in 1..MaxClickWindows :
          \E handled \in {HandleRestore(State, id)} : Noting(handled)

MouseInputUpdate ==
    /\ pc = "recv"
    /\ \E req \in MouseRequests :
          \E handled \in {Server_handle_input_update(State, req)} : Noting(handled)

NextMouse ==
    \/ MouseCreateWindow
    \/ MouseCommitBuffer
    \/ MouseDestroyWindow
    \/ MouseRestoreWindow
    \/ MouseInputUpdate

SpecMouse == Init /\ [][NextMouse]_vars


-----------------------------------------------------------------------------
(* The server with its inbox: clients send at any time, Server::run drains  *)
(* the inbox and renders.                                                   *)

DrainMessages ==
    {Message("CREATE_WINDOW", 0, req) : req \in {r \in CreateRequests : r.flags = {}}}
        \cup {Message(op, id, <<>>) :
                 op \in {"COMMIT_BUFFER", "DESTROY_WINDOW"}, id \in WindowIds}

ClientSends ==
    /\ pc # "exited"
    /\ Len(inbox.queue) < MaxInbox
    /\ inbox.arrived < MaxArrivals
    /\ \E msg \in DrainMessages : inbox' = Port_send(inbox, msg)
    /\ UNCHANGED <<render_engine, input, pc, frame_count, client_ports, focused_window,
                   mouse, drag, click, taskbar_port, run_result, sent, canvas, added, held>>

\* recv returns the oldest message of the inbox and handle_message handles it.
RecvMessage ==
    /\ pc = "recv"
    /\ ~DrainEnds(inbox)
    /\ \E shm_ok \in BOOLEAN :
          Becomes(Received(Server_handle_message(State, Head(inbox.queue).msg,
                                                 CreateEnv(shm_ok, 0))))

\* recv reports no message: process_messages returns Ok.
RecvNothing ==
    /\ pc = "recv"
    /\ DrainEnds(inbox)
    /\ frame_count < MaxFrames
    /\ Becomes([State EXCEPT !.pc = "render"])

NextDrain ==
    \/ ClientSends
    \/ RecvMessage
    \/ RecvNothing
    \/ Render
    \/ RenderFatal

SpecDrain == Init /\ [][NextDrain]_vars


-----------------------------------------------------------------------------
(* The server with an inbox that clients never stop filling.  The sequence  *)
(* numbers of the inbox are counted from the oldest pending message, so     *)
(* that arrivals are unbounded.                                             *)

Port_renumbered(p) ==
    [queue |-> [i \in DOMAIN p.queue |-> [seq |-> i, msg |-> p.queue[i].msg]],
     arrived |-> Len(p.queue),
     received |-> 0]

\* The number of CREATE_WINDOW messages pending in port p.
PendingCreates(p) ==
    Cardinality({i \in DOMAIN p.queue : p.queue[i].msg.op = "CREATE_WINDOW"})

\* A client sends a message; no more windows are asked for than MaxWindows.
ClientFloods ==
    /\ pc # "exited"
    /\ Len(inbox.queue) < MaxInbox
    /\ \E msg \in DrainMessages :
          /\ msg.op = "CREATE_WINDOW" =>
                render_engine.next_window_id + PendingCreates(inbox) <= MaxWindows
          /\ inbox' = Port_send(inbox, msg)
    /\ UNCHANGED <<render_engine, input, pc, frame_count, client_ports, focused_window,
                   mouse, drag, click, taskbar_port, run_result, sent, canvas, added, held>>

\* recv returns the oldest message of the inbox and handle_message handles it.
RecvFlooded ==
    /\ pc = "recv"
    /\ ~DrainEnds(inbox)
    /\ \E shm_ok \in BOOLEAN :
          \E handled \in {Received(Server_handle_message(State, Head(inbox.queue).msg,
                                                        CreateEnv(shm_ok, 0)))} :
              Becomes([handled EXCEPT !.inbox = Port_renumbered(@)])

\* A step of the server's single thread.
ServerStep == RecvFlooded \/ RecvNothing \/ Render \/ RenderFatal

NextFlood ==
    \/ ClientFloods
    \/ RecvFlooded
    \/ RecvNothing
    \/ Render
    \/ RenderFatal

\* The server's thread keeps running; nothing is assumed of the clients.
SpecFlood == Init /\ [][NextFlood]_vars /\ WF_vars(ServerStep)

-----------------------------------------------------------------------------

(* The RenderEngine driven through its public API alone, as any caller of   *)
(* render/compositor.rs may drive it.  send_to_back and set_window_layer    *)
(* have no caller in the server; here they are called like the rest.        *)

EngineSizes == {Size(20, 20)}

EngineXs == {0, 30}

ProbePoints == {Point(5, 5), Point(35, 5), Point(60, 40)}

TrackerIdle ==
    UNCHANGED <<inbox, input, pc, frame_count, client_ports, focused_window, mouse,
                drag, click, taskbar_port, run_result, sent, canvas, held>>

ServerIdle == TrackerIdle /\ UNCHANGED added

EngineCreateWindow ==
    /\ render_engine.next_window_id <= MaxSceneWindows
    /\ \E size \in EngineSizes, layer \in LayerTypes :
          render_engine' =
              RenderEngine_create_window(
                  render_engine, size,
                  [id |-> ShmHandle, size |-> size.width * size.height * 4,
                   filled |-> size.width * size.height],
                  layer, "A")
    /\ ServerIdle

EngineDestroyWindow ==
    /\ \E id \in 1..MaxSceneWindows :
          render_engine' = RenderEngine_destroy_window(render_engine, id)
    /\ ServerIdle

EngineMoveWindow ==
    /\ \E id \in 1..MaxSceneWindows, x \in EngineXs :
          render_engine' = RenderEngine_move_window(render_engine, id, x, 0)
    /\ ServerIdle

EngineBringToFront ==
    /\ \E id \in 1..MaxSceneWindows :
          render_engine' = RenderEngine_bring_to_front(render_engine, id)
    /\ ServerIdle

EngineSendToBack ==
    /\ \E id \in 1..MaxSceneWindows :
          render_engine' = RenderEngine_send_to_back(render_engine, id)
    /\ ServerIdle

EngineSetWindowLayer ==
    /\ \E id \in 1..MaxSceneWindows, layer \in LayerTypes :
          render_engine' = RenderEngine_set_window_layer(render_engine, id, layer)
    /\ ServerIdle

EngineMarkWindowHasContent ==
    /\ \E id \in 1..MaxSceneWindows :
          render_engine' = RenderEngine_mark_window_has_content(render_engine, id)
    /\ ServerIdle

NextEngine ==
    \/ EngineCreateWindow
    \/ EngineDestroyWindow
    \/ EngineMoveWindow
    \/ EngineBringToFront
    \/ EngineSendToBack
    \/ EngineSetWindowLayer
    \/ EngineMarkWindowHasContent

SpecEngine == Init /\ [][NextEngine]_vars

\* The engine's API on up to MaxLayerWindows windows of one size in three layers:
\* the orders bring_to_front and send_to_back give a layer of three.
StackCreateWindow ==
    /\ render_engine.next_window_id <= MaxLayerWindows
    /\ \E layer \in {"Normal", "Top", "Overlay"} :
          render_engine' =
              RenderEngine_create_window(
                  render_engine, Size(20, 20),
                  [id |-> ShmHandle, size |-> 1600, filled |-> 400], layer, "A")
    /\ ServerIdle

StackDestroyWindow ==
    /\ \E id \in 1..MaxLayerWindows :
          render_engine' = RenderEngine_destroy_window(render_engine, id)
    /\ ServerIdle

StackBringToFront ==
    /\ \E id \in 1..MaxLayerWindows :
          render_engine' = RenderEngine_bring_to_front(render_engine, id)
    /\ ServerIdle

StackSendToBack ==
    /\ \E id \in 1..MaxLayerWindows :
          render_engine' = RenderEngine_send_to_back(render_engine, id)
    /\ ServerIdle

NextLayers ==
    \/ StackCreateWindow
    \/ StackDestroyWindow
    \/ StackBringToFront
    \/ StackSendToBack

SpecLayers == Init /\ [][NextLayers]_vars

-----------------------------------------------------------------------------
(* The damage tracker driven through add, damage_full and clear *)

\* The k-th cell: one pixel on the top row, disjoint from every other cell.
DamageCell(k) == Rect(2 * k, 0, 1, 1)

\* The index of the first cell to the right of every stored region.
NextDamageCell(d) ==
    IF d.regions = <<>> THEN 0 ELSE (Right(d.regions[Len(d.regions)]) + 1) \div 2

\* The rectangles added to tracker d: the next cell or the one after it (a
\* sweep from left to right), the first cell again, an empty rectangle and a
\* rectangle off the screen.
DamageRects(d) ==
    {DamageCell(k) : k \in {NextDamageCell(d), NextDamageCell(d) + 1, 0}
                            \cap 0..(MaxDamageCells - 1)}
        \cup {Rect(4, 0, 0, 1), Rect(display_info.width + 6, 0, 1, 1)}

DamageAdd ==
    /\ \E rect \in DamageRects(render_engine.damage) :
          /\ render_engine' =
                 [render_engine EXCEPT !.damage = DamageTracker_add(@, rect)]
          /\ added' = added \cup {rect}
    /\ TrackerIdle

DamageFull ==
    /\ render_engine' =
           [render_engine EXCEPT
               !.damage = DamageTracker_damage_full(@, display_info.width,
                                                    display_info.height)]
    /\ added' = {}
    /\ TrackerIdle

DamageClear ==
    /\ render_engine' = [render_engine EXCEPT !.damage = DamageTracker_clear(@)]
    /\ added' = {}
    /\ TrackerIdle

NextDamage == DamageAdd \/ DamageFull \/ DamageClear

SpecDamage == Init /\ [][NextDamage]_vars

-----------------------------------------------------------------------------

(* A Backbuffer of CanvasSize driven through put_pixel and clear *)

\* Coordinates from one pixel outside the buffer on each side to one inside.
PixelXs == (0 - 1)..CanvasSize.width

PixelYs == (0 - 1)..CanvasSize.height

PutColors == {ColorWHITE, Argb(255, 255, 0, 0)}

CanvasIdle ==
    UNCHANGED <<inbox, render_engine, input, pc, frame_count, client_ports,
                focused_window, mouse, drag, click, taskbar_port, run_result, sent,
                added, held>>

CanvasPutPixel ==
    /\ \E x \in PixelXs, y \in PixelYs, color \in PutColors :
          canvas' = Backbuffer_put_pixel(canvas, x, y, color)
    /\ CanvasIdle

CanvasClear ==
    /\ canvas' = Backbuffer_clear(canvas, OpaqueBlack)
    /\ CanvasIdle

NextPutPixel == CanvasPutPixel \/ CanvasClear

SpecPutPixel == Init /\ [][NextPutPixel]_vars

-----------------------------------------------------------------------------

(* A Backbuffer of CanvasSize drawn on through blit_opaque and blit_alpha *)

SourceSize == Size(2, 2)

ColorRED == Argb(255, 255, 0, 0)

ColorGREEN == Argb(255, 0, 255, 0)

ColorTRANSPARENT == Argb(0, 0, 0, 0)

\* The pixels of a client's surface, row after row.
OpaqueImage == <<ColorWHITE, ColorRED, ColorGREEN, ColorWHITE>>

AlphaImage == <<ColorWHITE, ColorTRANSPARENT, ColorGREEN, ColorRED>>

\* Source rects from one pixel before the source to one pixel past it.
SourceRects ==
    {Rect(x, y, w, h) : x \in (0 - 1)..1, y \in (0 - 1)..1, w \in 1..2, h \in 1..2}

\* Destination points from one pixel before the canvas to its last pixel.
DestPoints ==
    {Point(x, y) : x \in {0 - 1, 0, CanvasSize.width - 1},
                   y \in {0 - 1, 0, CanvasSize.height - 1}}

BlitCalls(src) ==
    {BlitCall(CanvasSize, src, SourceSize, src_rect, dst_point, checks) :
        src_rect \in SourceRects, dst_point \in DestPoints, checks \in BOOLEAN}

\* The blit returns, or panics and ends the process.
CanvasBlitted(blitted) ==
    /\ canvas' = [canvas EXCEPT !.buffer = blitted.dst]
    /\ pc' = IF blitted.panicked THEN "panicked" ELSE pc
    /\ UNCHANGED <<inbox, render_engine, input, frame_count, client_ports,
                   focused_window, mouse, drag, click, taskbar_port, run_result, sent,
                   added, held>>

CanvasBlitOpaque ==
    /\ pc # "panicked"
    /\ \E c \in BlitCalls(OpaqueImage) :
          \E blitted \in {Blitter_blit_opaque(canvas.buffer, c)} : CanvasBlitted(blitted)

CanvasBlitAlpha ==
    /\ pc # "panicked"
    /\ \E c \in BlitCalls(AlphaImage) :
          \E blitted \in {Blitter_blit_alpha(canvas.buffer, c)} : CanvasBlitted(blitted)

CanvasCleared ==
    /\ pc # "panicked"
    /\ CanvasClear

NextBlit == CanvasBlitOpaque \/ CanvasBlitAlpha \/ CanvasCleared

SpecBlit == Init /\ [][NextBlit]_vars

-----------------------------------------------------------------------------

(* render()'s clear and composition of a scene of one committed window on a *)
(* backbuffer of CanvasSize                                                  *)

\* A committed window of `size` at `position` with `flags`.
ComposedWindow(size, position, flags) ==
    [Window_new(1, size, [id |-> ShmHandle, size |-> size.width * size.height * 4,
                          filled |-> size.width * size.height])
        EXCEPT !.position = position, !.flags = flags, !.has_content = TRUE]

\* Windows of one pixel and of 2x2 pixels, from one pixel before the screen to
\* its last pixel.
ComposedWindows ==
    {ComposedWindow(Size(n, n), Point(x, y), flags) :
        n \in 1..2,
        x \in (0 - 1)..(CanvasSize.width - 1),
        y \in (0 - 1)..(CanvasSize.height - 1),
        flags \in SUBSET {"BORDERLESS", "HAS_SHADOW", "TRANSPARENT"}}

\* A surface of `size` filled with `color`.
Surface(size, color) == [i \in 1..(size.width * size.height) |-> color]

Builds == {Build(checks, wide) : checks \in BOOLEAN, wide \in BOOLEAN}

\* What composite_window leaves of a cleared backbuffer.
Composed(window, color, focused, build) ==
    RenderEngine_composite_window(
        RenderEngine_clear_backbuffer(canvas.buffer, CanvasSize), CanvasSize,
        window, Surface(window.size, color), focused, build)

CanvasRenderWindow ==
    /\ pc # "panicked"
    /\ \E window \in ComposedWindows, color \in PutColors, focused \in BOOLEAN,
          build \in Builds :
          \E composed \in {Composed(window, color, focused, build)} :
              CanvasBlitted(composed)

CanvasRenderNothing ==
    /\ pc # "panicked"
    /\ CanvasBlitted(Blitted(RenderEngine_clear_backbuffer(canvas.buffer, CanvasSize),
                             FALSE))

NextComposite == CanvasRenderWindow \/ CanvasRenderNothing

SpecComposite == Init /\ [][NextComposite]_vars

-----------------------------------------------------------------------------

(* Properties *)

\* The last step logged `line` with window id `id`.
Logged(line, id) == \E i \in DOMAIN sent : sent[i] = Println(line, id)

\* The last step sent the taskbar the lifecycle event `event_type` of window `id`.
LifecycleSent(event_type, id) ==
    \E i \in DOMAIN sent :
        /\ sent[i].call = "send"
        /\ sent[i].op = "EVENT_WINDOW_LIFECYCLE"
        /\ sent[i].event_type = event_type
        /\ sent[i].window_id = id

\* The last step was a CREATE_WINDOW whose SharedMemory::create failed.
ShmCreateFailed ==
    \E i \in DOMAIN sent : sent[i].call = "shm_create" /\ sent[i].event_type = "err"

\* The last step was a CREATE_WINDOW whose ten Port::connect calls all failed.
ConnectGaveUp == Logged("Falha ao conectar porta", 0)

NoSends == \A i \in DOMAIN sent : sent[i].call # "send"

LayersHolding(e, id) == {l \in LayerTypes : SeqContains(e.layers[l], id)}

\* How often id occurs in the sequence s
Occurrences(s, id) == Cardinality({i \in DOMAIN s : s[i] = id})

\* C1: every live window's shared-memory buffer has exactly
\* width * height * 4 bytes for the window's current size, in every reachable
\* state, a double-click maximize included.
C1_ShmMatchesSize ==
    \A id \in DOMAIN render_engine.windows :
        LET w == render_engine.windows[id]
        IN  w.shm.size = w.size.width * w.size.height * 4

\* C2: when every one of the ten connects to the reply port of a CREATE_WINDOW
\* fails, the creation is rolled back: the id the window would have got is in
\* no window map, layer or port registry, focus is as before and no CREATED
\* lifecycle event is sent.
C2_UnreachableClientRolledBack ==
    [][ConnectGaveUp' =>
          LET id == render_engine.next_window_id
          IN  /\ ~HasWindow(render_engine', id)
              /\ LayersHolding(render_engine', id) = {}
              /\ ClientPortsFind(client_ports', id) = None
              /\ focused_window' = focused_window
              /\ ~LifecycleSent("CREATED", id)']_vars

\* C3: no error of handling a message ends Server::run; when run has returned,
\* it returned the error of a failed render.
C3_LoopEndsOnlyOnRenderError ==
    run_result # None => run_result = Some("Err(write_pixels)")

\* C4: a CREATE_WINDOW whose shared-memory allocation fails leaves the engine
\* (window map, layers, next window id, engine focus, damage), the server's
\* focus and the port registry exactly as they were, and sends no reply and no
\* lifecycle event.
C4_ShmFailureChangesNothing ==
    [][ShmCreateFailed' =>
          /\ render_engine' = render_engine
          /\ focused_window' = focused_window
          /\ client_ports' = client_ports
          /\ taskbar_port' = taskbar_port
          /\ NoSends']_vars

\* A failed allocation has been handled by a server that has a focused,
\* registered window and a taskbar.
C4_Witness ==
    /\ ShmCreateFailed
    /\ focused_window # None
    /\ HasWindow(render_engine, Unwrap(focused_window))
    /\ client_ports # <<>>
    /\ taskbar_port # None

\* All the ids in the seven layers, bottom layer first
AllLayerIds(e) == LayerManager_iter_bottom_to_top(e.layers)

\* C5: each live window id occurs exactly once across the seven layers, in the
\* layer its window's layer field names, and every id in a layer is a live
\* window; after any create, destroy, bring_to_front, send_to_back and
\* set_window_layer.
C5_LayerMembership ==
    /\ \A id \in DOMAIN render_engine.windows :
          /\ Occurrences(AllLayerIds(render_engine), id) = 1
          /\ SeqContains(render_engine.layers[render_engine.windows[id].layer], id)
    /\ \A l \in LayerTypes :
          \A i \in DOMAIN render_engine.layers[l] :
              HasWindow(render_engine, render_engine.layers[l][i])

\* Two windows share a layer other than the one they were created in, the
\* older one in front of the newer one.
C5_Witness ==
    \E a, b \in DOMAIN render_engine.windows :
        /\ a < b
        /\ render_engine.windows[a].layer = "Overlay"
        /\ render_engine.layers["Overlay"] = <<b, a>>
        /\ render_engine.windows[a].dirty

\* The layers from the back of the screen to the front
LayerRank(l) ==
    CASE l = "Background" -> 1
      [] l = "Normal" -> 2
      [] l = "Top" -> 3
      [] l = "Panel" -> 4
      [] l = "Overlay" -> 5
      [] l = "Lock" -> 6
      [] l = "Cursor" -> 7

\* The index of id in its layer's list (the front of a layer is its end)
IndexInLayer(e, id) ==
    CHOOSE i \in DOMAIN e.layers[e.windows[id].layer] :
        e.layers[e.windows[id].layer][i] = id

\* Window a is in front of window b.
InFrontOf(e, a, b) ==
    \/ LayerRank(e.windows[a].layer) > LayerRank(e.windows[b].layer)
    \/ /\ e.windows[a].layer = e.windows[b].layer
       /\ IndexInLayer(e, a) > IndexInLayer(e, b)

\* The visible windows that contain p
WindowsAt(e, p) ==
    {id \in DOMAIN e.windows :
        Window_is_visible(e.windows[id]) /\ Window_contains_point(e.windows[id], p.x, p.y)}

\* C6: window_at_point returns the visible window containing the point that is
\* in front of every other such window (layers in the order Cursor, Lock,
\* Overlay, Panel, Top, Normal, Background, front to back within a layer), the
\* Background layer included, and None when no visible window contains it.
C6_WindowAtPointIsFrontmost ==
    \A p \in ProbePoints :
        LET hit == RenderEngine_window_at_point(render_engine, p.x, p.y)
            under == WindowsAt(render_engine, p)
        IN  IF under = {} THEN hit = None
            ELSE /\ hit # None
                 /\ Unwrap(hit) \in under
                 /\ \A other \in under \ {Unwrap(hit)} :
                       InFrontOf(render_engine, Unwrap(hit), other)

\* Two visible windows contain a point, the newer one in Panel and the older one
\* in Top, and the newer one is hit; the point that no window contains hits none.
C6_Witness ==
    \E p, q \in ProbePoints :
        /\ WindowsAt(render_engine, p) = {1, 2}
        /\ render_engine.windows[1].layer = "Top"
        /\ render_engine.windows[2].layer = "Panel"
        /\ RenderEngine_window_at_point(render_engine, p.x, p.y) = Some(2)
        /\ WindowsAt(render_engine, q) = {}
        /\ RenderEngine_window_at_point(render_engine, q.x, q.y) = None

\* C7: a step that destroys the focused window (DESTROY_WINDOW or the close
\* button) or minimizes it (MINIMIZE_WINDOW or the minimize button) leaves the
\* focus None.
C7_DestroyOrMinimizeClearsFocus ==
    [][\A id \in WindowIds :
          (/\ focused_window = Some(id)
           /\ HasWindow(render_engine, id)
           /\ (Logged("Destruindo janela", id) \/ Logged("Janela minimizada", id))')
          => focused_window' = None]_vars

\* C8: the focused window is never a window of the Background layer.
C8_FocusNeverOnBackground ==
    \A id \in DOMAIN render_engine.windows :
        focused_window = Some(id) => render_engine.windows[id].layer # "Background"

Dragging ==
    /\ pc = "recv"
    /\ drag.window_id # None
    /\ HasWindow(render_engine, Unwrap(drag.window_id))

\* The mouse updates a drag is probed with: the pointer anywhere on a grid that
\* leaves the title bar in both directions, the primary button held or not.
DragRequests ==
    {InputRequest(2, 0, 0, x, y, b) : x \in MouseXs, y \in {5, 12, 40}, b \in ButtonMasks}

\* Where the pointer of the mouse update req puts a window dragged by the offset
\* of d
DragTarget(d, req) == Point(req.mouse_x - d.offset_x, req.mouse_y - d.offset_y)

\* C10 as amended: during a title-bar drag of a live window with offset
\* (ox, oy), every mouse update with the primary button held leaves the window
\* at mouse - offset and the drag active; the update that releases the button
\* leaves the window where it was and the drag inactive.
C10_DragFollowsPointerWhileHeld ==
    Dragging =>
        \A req \in DragRequests :
            LET w == Unwrap(drag.window_id)
                t == Server_handle_input_update(State, req)
            IN  /\ HasWindow(t.render_engine, w)
                /\ IF LeftBit(req.mouse_buttons)
                   THEN /\ t.render_engine.windows[w].position = DragTarget(drag, req)
                        /\ t.drag = drag
                   ELSE /\ t.render_engine.windows[w].position =
                               render_engine.windows[w].position
                        /\ t.drag.window_id = None

\* C10: during a title-bar drag of a live window with offset (ox, oy), every
\* mouse update, the one that releases the button included, leaves the window
\* at mouse - offset; after the release the drag is inactive.
C10_DragFollowsPointerUntilRelease ==
    Dragging =>
        \A req \in DragRequests :
            LET w == Unwrap(drag.window_id)
                t == Server_handle_input_update(State, req)
            IN  /\ HasWindow(t.render_engine, w)
                /\ t.render_engine.windows[w].position = DragTarget(drag, req)
                /\ (~LeftBit(req.mouse_buttons) => t.drag.window_id = None)

\* A drag has moved its window away from where it was created and the button
\* is still held.
C10_Witness ==
    /\ Dragging
    /\ LeftBit(mouse.prev_buttons)
    /\ render_engine.windows[Unwrap(drag.window_id)].position =
           Point(mouse.x - drag.offset_x, mouse.y - drag.offset_y)
    /\ render_engine.windows[Unwrap(drag.window_id)].position # PointZERO

\* C11: whenever a drag is active, the button mask saved by the last mouse
\* update has the primary bit set; and from every state, a mouse update saves
\* its button mask, leaves a drag active only when its primary bit is set, and
\* leaves a drag that was already active unchanged in that case: a drag lives
\* only through consecutive updates with the primary button held.
C11_DragOnlyWhileHeld ==
    /\ drag.window_id # None => LeftBit(mouse.prev_buttons)
    /\ pc = "recv" =>
          \A req \in DragRequests, other \in {0, 2} :
              LET buttons == req.mouse_buttons + other
                  t == Server_handle_input_update(
                           State, [req EXCEPT !.mouse_buttons = buttons])
              IN  /\ t.mouse.prev_buttons = buttons
                  /\ t.drag.window_id # None =>
                        /\ LeftBit(buttons)
                        /\ drag.window_id # None => t.drag = drag

\* A drag is active after an update that moved the pointer away from where the
\* button was pressed, the button still held.
C11_Witness ==
    /\ drag.window_id # None
    /\ LeftBit(mouse.prev_buttons)
    /\ mouse.x # drag.offset_x
    /\ input.prev_buttons = 1
    /\ input.mouse.buttons = 1

\* The step is a mouse update on which the primary button goes from up to down.
Press == pc = "recv" /\ ~LeftBit(mouse.prev_buttons) /\ LeftBit(mouse'.prev_buttons)

\* The window under the pointer of the mouse update the step handles
PressedWindow == RenderEngine_window_at_point(render_engine, mouse'.x, mouse'.y)

\* The step sent the reply port of window w a MOUSE_DOWN with the pointer in the
\* coordinates of w as it was before the step.
MouseDownSent(w) ==
    \E i \in DOMAIN sent' :
        sent'[i] = Call("send", Unwrap(ClientPortsFind(client_ports, w)).port,
                        "EVENT_INPUT", "MOUSE_DOWN", w,
                        mouse'.x - render_engine.windows[w].position.x,
                        [hi |-> mouse'.y - render_engine.windows[w].position.y,
                         lo |-> mouse'.prev_buttons],
                        "")

\* w is the last (frontmost) entry of layer l.
IsFrontOf(e, l, w) == e.layers[l] # <<>> /\ e.layers[l][Len(e.layers[l])] = w

\* The pointer of the mouse update the step handles is on the close button of
\* window w: w is decorated and outside Background, the pointer is in its
\* 24-px title bar and in the 20 px that end 2 px left of its right edge.
OnCloseButton(w) ==
    LET win == render_engine.windows[w]
        rel_x == mouse'.x - win.position.x
        rel_y == mouse'.y - win.position.y
    IN  /\ Window_has_decorations(win)
        /\ win.layer # "Background"
        /\ rel_y >= 0 /\ rel_y < 24
        /\ rel_x >= win.size.width - 22 /\ rel_x < win.size.width - 2

\* What C12 says of a press over the visible window w, for a server with a
\* taskbar and a registered reply port of w.
PressFocuses(w) ==
    /\ MouseDownSent(w)
    /\ IF focused_window # Some(w)
       THEN /\ focused_window' = Some(w)
            /\ \E i \in DOMAIN sent' :
                  sent'[i] = Call("send", Unwrap(taskbar_port), "EVENT_WINDOW_LIFECYCLE",
                                  "FOCUSED", w, 0, 0, render_engine.windows[w].title)
            /\ IF render_engine.windows[w].layer = "Normal"
               THEN IsFrontOf(render_engine', "Normal", w)
               ELSE render_engine'.layers = render_engine.layers
       ELSE /\ \A i \in DOMAIN sent' : sent'[i].event_type # "FOCUSED"
            /\ render_engine'.layers = render_engine.layers

\* The step is a press over the visible window w of a registered client, with a
\* taskbar registered.
PressOver(w) ==
    /\ Press
    /\ PressedWindow = Some(w)
    /\ taskbar_port # None
    /\ ClientPortsFind(client_ports, w) # None

OnTitleBar(w) ==
    LET win == render_engine.windows[w]
        rel_x == mouse'.x - win.position.x
        rel_y == mouse'.y - win.position.y
    IN  /\ Window_has_decorations(win)
        /\ win.layer # "Background"
        /\ rel_y >= 0 /\ rel_y < 24
        /\ ~(rel_x >= win.size.width - 22 /\ rel_x < win.size.width - 2)
        /\ ~(rel_x >= win.size.width - 46 /\ rel_x < win.size.width - 26)

\* The step has toggled window w between Maximized, at the origin with the size
\* of the screen, and restored.
MaximizeToggled(w) ==
    /\ HasWindow(render_engine', w)
    /\ IF render_engine.windows[w].state = "Maximized"
       THEN render_engine'.windows[w].state = "Normal"
       ELSE /\ render_engine'.windows[w].state = "Maximized"
            /\ render_engine'.windows[w].position = PointZERO
            /\ render_engine'.windows[w].size = RenderEngine_size(render_engine)

\* C14: a press in the title bar of the decorated, non-Background window w, off
\* its buttons, at frame f: when the click state records w at a frame less than
\* 30 frames before f, the press toggles w between Maximized and restored,
\* clears the click state and leaves no drag active; otherwise it starts a drag
\* of w with the window-local press coordinates as offset and records (w, f).
C14_DoubleClickTogglesMaximize ==
    [][\A w \in 1..MaxClickWindows :
          (Press /\ PressedWindow = Some(w) /\ OnTitleBar(w)) =>
              IF /\ click.last_window = Some(w)
                 /\ frame_count - click.last_frame < DoubleClickFrames
              THEN /\ MaximizeToggled(w)
                   /\ click'.last_window = None
                   /\ drag'.window_id = None
              ELSE /\ drag' = [window_id |-> Some(w),
                               offset_x |-> mouse'.x - render_engine.windows[w].position.x,
                               offset_y |-> mouse'.y - render_engine.windows[w].position.y]
                   /\ click' = [last_frame |-> frame_count, last_window |-> Some(w)]]_vars

\* The state t differs from the current one in no window, layer, focus, client
\* registry entry or damage, and reaching it sent nothing to any port.
NothingHappened(t) ==
    /\ t.render_engine.windows = render_engine.windows
    /\ t.render_engine.layers = render_engine.layers
    /\ t.render_engine.focused_window = render_engine.focused_window
    /\ t.focused_window = focused_window
    /\ t.client_ports = client_ports
    /\ t.render_engine.damage = render_engine.damage
    /\ \A i \in DOMAIN t.sent : t.sent[i].call # "send"

\* C15: a COMMIT_BUFFER, DESTROY_WINDOW, MINIMIZE_WINDOW or RESTORE_WINDOW that
\* names an id no window has changes no window, layer, focus, registry entry or
\* damage (the full-screen flag included) and sends no reply and no lifecycle
\* event.
C15_UnknownWindowIsNoOp ==
    pc = "recv" =>
        \A id \in (0..(MaxWindows + 1)) \ DOMAIN render_engine.windows :
            /\ NothingHappened(handle_commit_buffer(State, id))
            /\ NothingHappened(HandleDestroy(State, id))
            /\ NothingHappened(handle_minimize_window(State, id))
            /\ NothingHappened(HandleRestore(State, id))

\* Handling a message led to state t and dropped the message: no window was
\* created, no focus, registry entry or layer changed, nothing was sent to any
\* port, and the loop goes on to the next message.
Dropped(t) ==
    /\ t.render_engine.windows = render_engine.windows
    /\ t.render_engine.next_window_id = render_engine.next_window_id
    /\ t.render_engine.layers = render_engine.layers
    /\ t.render_engine.focused_window = render_engine.focused_window
    /\ t.focused_window = focused_window
    /\ t.client_ports = client_ports
    /\ \A i \in DOMAIN t.sent : t.sent[i].call # "send"
    /\ t.pc = "recv"
    /\ t.run_result = None

\* C16: a message shorter than the opcode, a message with an unknown opcode,
\* and a CREATE_WINDOW whose title or reply-port name is not valid UTF-8 are
\* dropped.
C16_MalformedDropped ==
    pc = "recv" =>
        /\ Dropped(State)
        /\ Dropped(HandleUnknownOpcode(State))
        /\ \A req \in BadTextCreateRequests, fails \in ConnectOutcomes :
              Dropped(HandleCreate(State, req, CreateEnv(TRUE, fails)))

C18_WindowIdsStrictlyIncrease ==
    [][/\ render_engine.next_window_id >= 1
       /\ \A id \in DOMAIN render_engine.windows :
             /\ id >= 1
             /\ id < render_engine.next_window_id
             /\ render_engine.windows[id].id = id
       /\ DOMAIN render_engine'.windows \ DOMAIN render_engine.windows
             \subseteq {render_engine.next_window_id}
       /\ IF DOMAIN render_engine'.windows \ DOMAIN render_engine.windows # {}
          THEN render_engine'.next_window_id = render_engine.next_window_id + 1
          ELSE render_engine'.next_window_id = render_engine.next_window_id]_vars

\* Window 1 has been destroyed and the window created after that is window 2.
C18_Witness ==
    /\ DOMAIN render_engine.windows = {2}
    /\ render_engine.next_window_id = 3
    /\ render_engine.damage.regions # <<>>

\* Sizes asked of create_window: zero in width, in height, in both, in neither.
ZeroProbeSizes == {Size(0, 20), Size(20, 0), Size(0, 0), Size(20, 20)}

\* C19: create_window on a size that is zero in width or height leaves the
\* engine as it was; on any other size it adds one window under a fresh id.
C19_CreateFailsOnZeroSize ==
    \A size \in ZeroProbeSizes, layer \in LayerTypes :
        LET created ==
                RenderEngine_create_window(
                    render_engine, size,
                    [id |-> ShmHandle, size |-> size.width * size.height * 4,
                     filled |-> size.width * size.height],
                    layer, "A")
        IN  IF size.width = 0 \/ size.height = 0
            THEN created = render_engine
            ELSE /\ DOMAIN created.windows =
                        DOMAIN render_engine.windows \cup {render_engine.next_window_id}
                 /\ ~HasWindow(render_engine, render_engine.next_window_id)
                 /\ created.next_window_id = render_engine.next_window_id + 1

\* Rectangles added to the tracker in every state: each cell, the whole
\* screen, a rectangle across the right edge of the screen, an empty one.
DamageProbeRects ==
    {DamageCell(k) : k \in 0..(MaxDamageCells - 1)}
        \cup {Rect(0, 0, display_info.width, display_info.height),
              Rect(display_info.width - 2, 2, 6, 1), Rect(4, 0, 0, 1)}

\* C20: the tracker stores at most max_regions (16) rectangles, and still does
\* after an add of any rectangle, after damage_full and after clear.
C20_AtMostMaxRegions ==
    /\ Len(render_engine.damage.regions) <= max_regions
    /\ \A rect \in DamageProbeRects :
          Len(DamageTracker_add(render_engine.damage, rect).regions) <= max_regions
    /\ Len(DamageTracker_damage_full(render_engine.damage, display_info.width,
                                     display_info.height).regions) <= max_regions
    /\ Len(DamageTracker_clear(render_engine.damage).regions) <= max_regions

\* The seventeenth disjoint cell was added after a clear: add collapsed the
\* regions into their bounding box.
C20_Witness ==
    /\ ~render_engine.damage.full_damage
    /\ render_engine.damage.regions = <<Rect(0, 0, 2 * max_regions + 1, 1)>>


\* C21: for every live window, minimize followed by restore gives back the
\* position and size the window had before the minimize, in state Normal.
C21_MinimizeRestoreKeepsGeometry ==
    \A id \in DOMAIN render_engine.windows :
        LET w == render_engine.windows[id]
            back == Window_restore(Window_minimize(w))
        IN  /\ back.position = w.position
            /\ back.size = w.size
            /\ back.state = "Normal"


\* Screen sizes handed to maximize: the display's and a smaller one.
MaximizeSizes == {RenderEngine_size(render_engine), Size(10, 10)}

\* The position and size of window b are those of window a.
SameGeometry(a, b) == a.position = b.position /\ a.size = b.size

EntriesOf(id) == {i \in DOMAIN client_ports : client_ports[i].window_id = id}

\* C23: the registry has exactly one entry for each live window and none for
\* an id that is not a live window.
C23_OneRegistryEntryPerLiveWindow ==
    /\ \A id \in DOMAIN render_engine.windows : Cardinality(EntriesOf(id)) = 1
    /\ \A i \in DOMAIN client_ports :
          HasWindow(render_engine, client_ports[i].window_id)


\* Positions move_window is called with: partly above and left of the screen,
\* and reaching past its bottom right corner.
EdgePositions ==
    {Point(0 - 5, 0 - 5), Point(display_info.width - 10, display_info.height - 10)}

\* C24: in every scene, also after a move of a window to a position that
\* is negative or reaches past the screen edge, window_at_point finds no window
\* at (-1, -1) nor at (screen.width, screen.height).
C24_NoWindowOutsideScreen ==
    /\ RenderEngine_window_at_point(render_engine, 0 - 1, 0 - 1) = None
    /\ RenderEngine_window_at_point(render_engine, display_info.width,
                                    display_info.height) = None
    /\ \A id \in DOMAIN render_engine.windows, p \in EdgePositions :
          LET moved == RenderEngine_move_window(render_engine, id, p.x, p.y)
          IN  /\ RenderEngine_window_at_point(moved, 0 - 1, 0 - 1) = None
              /\ RenderEngine_window_at_point(moved, display_info.width,
                                              display_info.height) = None


\* Keyboard updates of the input service: key 65 pressed, released.
KeyRequests == {InputRequest(1, 65, pressed, 0, 0, 0) : pressed \in {0, 1}}

\* C25: handling a keyboard INPUT_UPDATE sends exactly one event, KEY_DOWN when
\* key_pressed = 1 and KEY_UP otherwise, to the reply port registered for the
\* focused window; with no focused window it sends nothing and changes nothing
\* but the input manager.
C25_KeyGoesToFocusedWindow ==
    \A req \in KeyRequests :
        LET t == Server_handle_input_update(State, req)
        IN  /\ [t EXCEPT !.input = input, !.sent = <<>>] = State
            /\ IF focused_window = None
               THEN t.sent = <<>>
               ELSE LET client == ClientPortsFind(client_ports, Unwrap(focused_window))
                    IN  /\ client # None
                        /\ t.sent =
                              <<Call("send", Unwrap(client).port, "EVENT_INPUT",
                                     IF req.key_pressed = 1 THEN "KEY_DOWN" ELSE "KEY_UP",
                                     Unwrap(focused_window), req.key_code, 0, "")>>


\* C26: whatever the clients do, a drain that starts (before the frame bound
\* of the model) ends: the loop leaves process_messages, to render or to
\* return.
C26_DrainAlwaysEnds ==
    (pc = "recv" /\ frame_count < MaxFrames) ~> (pc # "recv")


\* C29: put_pixel at a coordinate outside the buffer returns the buffer as it
\* was; at a coordinate inside it changes the word at index y * width + x to
\* the colour and no other word, and leaves the dimensions alone.
C29_PutPixelChangesOneWordOrNone ==
    \A x \in PixelXs, y \in PixelYs, color \in PutColors :
        LET put == Backbuffer_put_pixel(canvas, x, y, color)
        IN  IF x < 0 \/ y < 0 \/ x >= canvas.width \/ y >= canvas.height
            THEN put = canvas
            ELSE /\ put.width = canvas.width
                 /\ put.height = canvas.height
                 /\ Len(put.buffer) = Len(canvas.buffer)
                 /\ \A i \in 0..(Len(canvas.buffer) - 1) :
                       put.buffer[i + 1] =
                           IF i = y * canvas.width + x THEN color
                           ELSE canvas.buffer[i + 1]

\* As in test_put_pixel_bounds: the first and the last pixel have been put,
\* the rest is as constructed.
C29_Witness ==
    /\ canvas.buffer[1] = ColorWHITE
    /\ canvas.buffer[canvas.width * canvas.height] = ColorWHITE
    /\ \A i \in 2..(canvas.width * canvas.height - 1) : canvas.buffer[i] = OpaqueBlack

\* What a blit of call c is to leave in dst: the pixels of the translated
\* source rect that lie in the source and in the destination, each from its
\* source coordinate (stored by blit_opaque, laid over by blit_alpha), and
\* every other pixel as it was.
ExactBlit(dst, c, alpha) ==
    [i \in DOMAIN dst |->
        LET x == ((i - 1) % c.dst_size.width) - c.dst_point.x
            y == ((i - 1) \div c.dst_size.width) - c.dst_point.y
            src_x == c.src_rect.x + x
            src_y == c.src_rect.y + y
        IN  IF /\ x >= 0 /\ x < c.src_rect.width
               /\ y >= 0 /\ y < c.src_rect.height
               /\ src_x >= 0 /\ src_x < c.src_size.width
               /\ src_y >= 0 /\ src_y < c.src_size.height
            THEN IF alpha
                 THEN blend_over(c.src[src_y * c.src_size.width + src_x + 1], dst[i])
                 ELSE c.src[src_y * c.src_size.width + src_x + 1]
            ELSE dst[i]]

\* C27: blit_opaque and blit_alpha, for any source rect and destination point,
\* never fault, never wrap onto another row and write exactly the pixels of
\* the translated source rect that lie in both the source and the destination,
\* each taken from its source coordinate.
C27_BlitCopiesExactlyTheIntersection ==
    /\ pc # "panicked"
    /\ \A c \in BlitCalls(OpaqueImage) :
          Blitter_blit_opaque(canvas.buffer, c) =
              Blitted(ExactBlit(canvas.buffer, c, FALSE), FALSE)
    /\ \A c \in BlitCalls(AlphaImage) :
          Blitter_blit_alpha(canvas.buffer, c) =
              Blitted(ExactBlit(canvas.buffer, c, TRUE), FALSE)


\* The 1x1 windows in the last pixel of the screen, decorated or borderless.
CornerWindows ==
    {ComposedWindow(Size(1, 1),
                    Point(CanvasSize.width - 1, CanvasSize.height - 1), flags) :
        flags \in SUBSET {"BORDERLESS"}}

\* The pixels in which buffers a and b differ.
ChangedPixels(a, b) == {i \in DOMAIN a : a[i] # b[i]}

\* C28: composing a committed 1x1 window at (screen.width - 1,
\* screen.height - 1) changes exactly one pixel of the cleared backbuffer,
\* whatever its focus and decoration flags.
C28_CornerWindowComposesOnePixel ==
    /\ pc # "panicked"
    /\ \A window \in CornerWindows, color \in PutColors, focused \in BOOLEAN,
          build \in Builds :
          LET composed == Composed(window, color, focused, build)
          IN  /\ ~composed.panicked
              /\ Cardinality(ChangedPixels(
                     composed.dst,
                     RenderEngine_clear_backbuffer(canvas.buffer, CanvasSize))) = 1


\* What add keeps of the rects of `rects`: each clipped to the screen, the
\* empty ones and those off the screen apart.
KeptOf(rects, screen_rect) ==
    {Unwrap(Rect_intersection(r, screen_rect)) :
        r \in {q \in rects : ~Rect_is_empty(q) /\ Rect_intersection(q, screen_rect) # None}}

\* The bounding box of a set of rects that is not empty.
BoxOf(rects) ==
    LET x == CHOOSE v \in {r.x : r \in rects} : \A r \in rects : v <= r.x
        y == CHOOSE v \in {r.y : r \in rects} : \A r \in rects : v <= r.y
        right == CHOOSE v \in {Right(r) : r \in rects} : \A r \in rects : v >= Right(r)
        bottom == CHOOSE v \in {Bottom(r) : r \in rects} : \A r \in rects : v >= Bottom(r)
    IN  Rect(x, y, right - x, bottom - y)

\* This step is an add of `rect`, which is kept and intersects none of the 16
\* stored rects.
AddsSeventeenth(rect) ==
    LET d == render_engine.damage
        clip == Rect_intersection(rect, d.screen_rect)
    IN  /\ Len(d.regions) = max_regions
        /\ ~Rect_is_empty(rect)
        /\ clip # None
        /\ \A i \in DOMAIN d.regions : ~Rect_intersects(d.regions[i], Unwrap(clip))
        /\ render_engine'.damage = DamageTracker_add(d, rect)
        /\ added' = added \cup {rect}

\* After this step the tracker holds one rect, the bounding box of the rects
\* added so far, and has_damage() is true.
CollapsedToBoxOfAdded ==
    /\ render_engine'.damage.regions =
           <<BoxOf(KeptOf(added', render_engine'.damage.screen_rect))>>
    /\ DamageTracker_has_damage(render_engine'.damage)

\* C30, as stated: starting from a tracker with no rects stored, the add that
\* brings the set to 17 rects collapses it to the bounding box of all rects
\* added so far, and has_damage() is true.
C30_SeventeenthAddCollapsesToBoundingBox ==
    [][\A rect \in DamageRects(render_engine.damage) :
          AddsSeventeenth(rect) => CollapsedToBoxOfAdded]_vars

\* C30, amended: the same of a tracker whose full-damage flag is not set (one
\* emptied by clear()), for the rects as add keeps them.
C30_SeventeenthAddCollapsesToBoundingBoxAfterClear ==
    [][\A rect \in DamageRects(render_engine.damage) :
          (~render_engine.damage.full_damage /\ AddsSeventeenth(rect))
              => CollapsedToBoxOfAdded]_vars

\* Seventeen rects or more were added since a clear, and the tracker holds
\* their bounding box alone.
C30_Witness ==
    /\ ~render_engine.damage.full_damage
    /\ Cardinality(KeptOf(added, render_engine.damage.screen_rect)) > max_regions
    /\ render_engine.damage.regions =
           <<BoxOf(KeptOf(added, render_engine.damage.screen_rect))>>


\* The places in `sent` of the calls `call` the last step made.
CallsOf(call) == {i \in DOMAIN sent : sent[i].call = call}

WindowCreatedSends ==
    {i \in CallsOf("send") : sent[i].op = "WINDOW_CREATED"}

\* C31: handling one CREATE_WINDOW makes at most 10 connection attempts, sleeps
\* 10 ms after each failed attempt but the tenth, stops at the first success,
\* sends WINDOW_CREATED exactly once on success and never on failure, and
\* returns to the message loop.
C31_ConnectRetriesAreBounded ==
    LET connects == CallsOf("connect")
        failed == {i \in connects : sent[i].event_type = "err"}
        succeeded == connects \ failed
    IN  CallsOf("shm_create") # {} =>
        /\ Cardinality(connects) <= 10
        /\ Cardinality(CallsOf("sleep")) <= 9
        /\ Cardinality(CallsOf("sleep")) =
               IF Cardinality(failed) = 10 THEN 9 ELSE Cardinality(failed)
        /\ \A i \in failed :
              \/ Cardinality({j \in failed : j <= i}) = 10
              \/ /\ i + 1 \in CallsOf("sleep")
                 /\ sent[i + 1].param1 = 10
        /\ \A i \in CallsOf("sleep") : i - 1 \in failed
        /\ \A i \in succeeded : \A j \in connects : j <= i
        /\ Cardinality(WindowCreatedSends) = Cardinality(succeeded)
        /\ Cardinality(succeeded) <= 1
        /\ \A i \in succeeded : WindowCreatedSends = {i + 1}
        /\ connects # {} => pc = "recv" /\ run_result = None

\* The reply port accepted the fourth attempt: three sleeps, one WINDOW_CREATED.
C31_Witness ==
    /\ CallsOf("shm_create") # {}
    /\ Cardinality(CallsOf("connect")) = 4
    /\ Cardinality(CallsOf("sleep")) = 3
    /\ Cardinality(WindowCreatedSends) = 1


\* The calls `calls` send the taskbar the lifecycle event `event_type` of window `id`.
LifecycleIn(calls, event_type, id) ==
    \E i \in DOMAIN calls :
        /\ calls[i].call = "send"
        /\ calls[i].op = "EVENT_WINDOW_LIFECYCLE"
        /\ calls[i].event_type = event_type
        /\ calls[i].window_id = id

\* C32: RESTORE_WINDOW of a live window leaves it Normal, focused and last in
\* its layer with the other windows in their order, sends the taskbar (when
\* one is registered) RESTORED and leaves damage; MINIMIZE_WINDOW of a live
\* window leaves it Minimized, sends MINIMIZED and changes no layer.
C32_RestoreRaisesAndFocusesMinimizeKeepsOrder ==
    \A id \in DOMAIN render_engine.windows :
        LET restored == HandleRestore(State, id)
            e == restored.render_engine
            layer == render_engine.windows[id].layer
            minimized == handle_minimize_window(State, id)
        IN  /\ e.windows[id].state = "Normal"
            /\ restored.focused_window = Some(id)
            /\ e.focused_window = Some(id)
            /\ e.layers = [render_engine.layers EXCEPT
                              ![layer] = Append(SeqRemoveFirst(@, id), id)]
            /\ taskbar_port # None => LifecycleIn(restored.sent, "RESTORED", id)
            /\ DamageTracker_has_damage(e.damage)
            /\ minimized.render_engine.windows[id].state = "Minimized"
            /\ taskbar_port # None => LifecycleIn(minimized.sent, "MINIMIZED", id)
            /\ minimized.render_engine.layers = render_engine.layers

\* The first of two windows of the Normal layer has just been restored: it is
\* now the last of the layer, Normal and focused, and the taskbar was told.
C32_Witness ==
    /\ Logged("Janela restaurada", 1)
    /\ LifecycleSent("RESTORED", 1)
    /\ render_engine.layers["Normal"] = <<2, 1>>
    /\ render_engine.windows[1].state = "Normal"
    /\ focused_window = Some(1)


\* The window a CREATE_WINDOW handled in the last step created, if any.
JustCreated ==
    IF \E i \in CallsOf("shm_create") : sent[i].event_type = "ok"
    THEN {render_engine.next_window_id - 1} \cap DOMAIN render_engine.windows
    ELSE {}

\* C33: for every u32 width and height of a CREATE_WINDOW, the bytes asked of
\* SharedMemory::create and reported as buffer_size are width * height * 4 as
\* mathematical integers, and the pixels filled with 0xFF000000 are
\* buffer_size / 4; no product panics.
C33_BufferSizeNeverWraps ==
    /\ pc # "panicked"
    /\ \A id \in JustCreated :
          LET w == render_engine.windows[id]
              exact == Product(Product(Word(w.size.width), Word(w.size.height)), Word(4))
          IN  /\ Widened(Word(w.shm.size), 12) = exact
              /\ \A i \in CallsOf("shm_create") :
                    Widened(Word(sent[i].param1), 12) = exact
              /\ \A i \in WindowCreatedSends :
                    Widened(Word(sent[i].param2), 12) = exact
              /\ Widened(Word(w.shm.size), 8) = Product(Word(w.shm.filled), Word(4))

\* C34: through every minimize, maximize and restore, a window in state Normal
\* has no restore_rect, and a window that is Maximized or Minimized holds the
\* position and size it had when it last was Normal: the rectangle is saved on
\* leaving Normal and kept until the window is Normal again.
C34_RestoreRectIsLastNormalRect ==
    [][\A id \in DOMAIN render_engine.windows \cap DOMAIN render_engine'.windows :
          LET before == render_engine.windows[id]
              after == render_engine'.windows[id]
          IN  /\ after.state = "Normal" => after.restore_rect = None
              /\ before.state = "Normal" /\ after.state # "Normal" =>
                    after.restore_rect = Some(Window_rect(before))
              /\ before.state # "Normal" /\ after.state # "Normal" =>
                    after.restore_rect = before.restore_rect]_vars


\* C35: in every layer, bring_to_front of a member makes it the last entry and
\* send_to_back makes it the first, both keeping the members and the order of
\* the other members; on an id that is not in the layer both leave the layer
\* as it is, and add_window of a member leaves the layer as it is.
C35_RaiseAndLowerKeepTheOthersInOrder ==
    \A l \in LayerTypes, id \in 1..(MaxLayerWindows + 1) :
        LET layer == render_engine.layers[l]
            front == Layer_bring_to_front(layer, id)
            back == Layer_send_to_back(layer, id)
        IN  IF SeqContains(layer, id)
            THEN /\ Len(front) = Len(layer)
                 /\ front[Len(front)] = id
                 /\ SeqRetainNot(front, id) = SeqRetainNot(layer, id)
                 /\ Len(back) = Len(layer)
                 /\ back[1] = id
                 /\ SeqRetainNot(back, id) = SeqRetainNot(layer, id)
                 /\ Layer_add_window(layer, id) = layer
            ELSE front = layer /\ back = layer

\* Three windows share the Normal layer and the oldest has been brought to the
\* front of the two others, which kept their order.
C35_Witness ==
    /\ render_engine.layers["Normal"] = <<2, 3, 1>>
    /\ Layer_send_to_back(render_engine.layers["Normal"], 3) = <<3, 2, 1>>


\* C36: after every handled message the focus the server keeps (the target of
\* key and MOUSE_UP events) is the focus the render engine keeps (the window
\* drawn with the focus border).
C36_ServerAndEngineAgreeOnFocus ==
    focused_window = render_engine.focused_window

\* A press has just moved the focus from window 2 to window 1, in the server and
\* in the engine.
C36_Witness ==
    /\ \E i \in DOMAIN sent : sent[i].event_type = "MOUSE_DOWN" /\ sent[i].window_id = 1
    /\ LeftBit(mouse.prev_buttons)
    /\ render_engine.layers["Normal"] = <<2, 1>>
    /\ focused_window = Some(1)
    /\ render_engine.focused_window = Some(1)


\* C37: in every reachable state the focused window, if there is one, is a live
\* window, in the server and in the engine: no create, destroy, close-button
\* press, minimize, restore or click leaves the focus on a destroyed window.
C37_FocusIsOnALiveWindow ==
    /\ focused_window # None => HasWindow(render_engine, Unwrap(focused_window))
    /\ render_engine.focused_window # None =>
          HasWindow(render_engine, Unwrap(render_engine.focused_window))

\* Window 1 has just been destroyed, window 2 lives on, and nothing has the
\* focus.
C37_Witness ==
    /\ Logged("Destruindo janela", 1)
    /\ ~HasWindow(render_engine, 1)
    /\ HasWindow(render_engine, 2)
    /\ render_engine.next_window_id = 3
    /\ focused_window = None
    /\ render_engine.damage.full_damage


\* C38: in every reachable state a focused window of the Normal layer is the
\* last entry of that layer: no other Normal window is composed above it.
C38_FocusedNormalWindowIsFrontmost ==
    \A id \in DOMAIN render_engine.windows :
        (focused_window = Some(id) /\ render_engine.windows[id].layer = "Normal") =>
            LET normal == render_engine.layers["Normal"]
            IN  normal # <<>> /\ normal[Len(normal)] = id

\* A press on window 1 of the Normal layer has just given it the focus, raised
\* it over the newer window 2 and started to drag it.
C38_Witness ==
    /\ \E i \in DOMAIN sent : sent[i].event_type = "MOUSE_DOWN" /\ sent[i].window_id = 1
    /\ focused_window = Some(1)
    /\ drag.window_id = Some(1)
    /\ DOMAIN render_engine.windows = {1, 2}
    /\ render_engine.windows[1].layer = "Normal"
    /\ render_engine.windows[2].layer = "Normal"
    /\ render_engine.layers["Normal"] = <<2, 1>>


\* C39: the mouse events sent to a window come in pairs: a step sends MOUSE_UP
\* only to a window that was sent a MOUSE_DOWN before and no MOUSE_UP since,
\* however mouse updates interleave with create, destroy, restore and focus
\* changes.
C39_MouseUpFollowsMouseDown ==
    [][MouseEventsIn(sent', "MOUSE_UP") \subseteq held]_vars


\* The live windows that are borderless or in the Background layer
Undecorated(e) ==
    {id \in DOMAIN e.windows :
        ~Window_has_decorations(e.windows[id]) \/ e.windows[id].layer = "Background"}

\* C40: no mouse update moves, resizes, destroys, minimizes or maximizes a
\* window that is borderless or in the Background layer, and the drag state
\* never names such a window.
C40_MouseLeavesUndecoratedWindowsAlone ==
    /\ \A id \in Undecorated(render_engine) : drag.window_id # Some(id)
    /\ \A req \in MouseRequests, id \in Undecorated(render_engine) :
          LET after == Server_handle_input_update(State, req)
              was == render_engine.windows[id]
          IN  /\ HasWindow(after.render_engine, id)
              /\ after.render_engine.windows[id].position = was.position
              /\ after.render_engine.windows[id].size = was.size
              /\ after.render_engine.windows[id].state = was.state
              /\ after.drag.window_id # Some(id)

\* A press where a decorated window has its close button has just landed on the
\* borderless window 1: it got the focus and a MOUSE_DOWN and is still there.
C40_Witness ==
    /\ 1 \in Undecorated(render_engine)
    /\ \E i \in DOMAIN sent :
          /\ sent[i].event_type = "MOUSE_DOWN"
          /\ sent[i].window_id = 1
          /\ sent[i].param1 = 45
    /\ ~Window_has_decorations(render_engine.windows[1])
    /\ render_engine.windows[1].state = "Normal"
    /\ focused_window = Some(1)
    /\ LeftBit(mouse.prev_buttons)


====
